---- MODULE Spec2Model ----
(***************************************************************************)
(* Model of the agent-to-agent reply loop of src/index.js: agentLoop, its  *)
(* stream "line" / "close" handlers (the segmenter) and the mention scan.  *)
(* Text is modelled as a sequence of one-character strings, so that the    *)
(* regular expressions of the source are computed character by character. *)
(***************************************************************************)
EXTENDS Integers, Sequences, FiniteSets, TLC

VARIABLES
  allAgentsInChannel, \* rows of table agents for the channel: <<[id, name]>>
  guildSettings,      \* row of table guildSettings: [present, contextWindow, loopDepth]
  provider,           \* per agent id: state of its providers row
  remote,             \* per agent id: how its completion endpoint answers
  systemPrompt,       \* per agent id: column systemPrompt of its agents row
  yapSettings,        \* table yap_settings: the agent ids with isEnabled = 1
  turns,              \* every invocation of agentLoop, in invocation order
  db,                 \* table messages, in insertion (id) order
  sent,               \* every send() issued: webhookClient.send / channel.send
  calls,              \* every fetch(completionsUrl) issued
  yapTimers,          \* the Map yapTimers: agent id -> [timerId, messageBuffer]
  timeouts,           \* the timers set by setTimeout that are still pending
  inbound,            \* the Message objects messageCreate was called with
  starts              \* history: what made each depth 0 call of agentLoop

\* what no handler of the model writes
config ==
  <<allAgentsInChannel, guildSettings, provider, remote, systemPrompt, yapSettings>>

\* the debouncer ("yap") and the messages it holds
yapvars == <<yapTimers, timeouts, inbound, starts>>

vars == <<config, yapvars, turns, db, sent, calls>>

(***************************************************************************)
(* Bounds of the model.                                                    *)
(***************************************************************************)
MaxUnits == 3        \* a segmenter stream is built from at most this many units
MaxDeltas == 2       \* and is cut into at most this many deltas
MaxLoopSetting == 1  \* /loopdepth values 0..MaxLoopSetting are configured
MaxRoots == 1        \* human messages that start a root turn
MaxTurns == 4        \* invocations of agentLoop after which no fetch is answered
MaxHistory == 3      \* rows of table messages after the first, before a transcript is built
MaxBadLines == 1     \* malformed lines in one stream
MaxBadUnits == 2     \* units of a stream that carries malformed lines
MaxRejects == 2
MaxFmtHistory == 5
MaxSplitText == 5
MaxSplitLen == 3
MaxInbound == 3      \* messages of humans received by messageCreate

(***************************************************************************)
(* Program constants.                                                      *)
(***************************************************************************)
DefaultLoopDepth == 2

(***************************************************************************)
(* Character sequences.                                                    *)
(***************************************************************************)
\* the characters of s at the indices idx (\o <<>>: as an explicit sequence)
Pick(s, idx) == [k \in 1..Len(idx) |-> s[idx[k]]] \o <<>>

\* <<a, a + 1, ..., b>>
Range(a, b) == [k \in 1..(b - a + 1) |-> a + k - 1] \o <<>>

SetMin(S) == CHOOSE x \in S : \A y \in S : x <= y

\* the least of the negated elements, negated: S is run through once
SetMax(S) == 0 - SetMin({0 - x : x \in S})

RECURSIVE Flatten(_)
Flatten(ss) == IF ss = <<>> THEN <<>> ELSE Head(ss) \o Flatten(Tail(ss))

MatchAt(s, i, lit) ==
  /\ i >= 1
  /\ i + Len(lit) - 1 <= Len(s)
  /\ \A k \in 1..Len(lit) : s[i + k - 1] = lit[k]

\* String.prototype.indexOf(lit, from), 1-based, 0 when absent
IndexFrom(s, lit, from) ==
  LET c == {i \in from..(Len(s) - Len(lit) + 1) : MatchAt(s, i, lit)}
  IN IF c = {} THEN 0 ELSE SetMin(c)

ThinkOpen == <<"<", "t", "h", "i", "n", "k", ">">>
ThinkClose == <<"<", "/", "t", "h", "i", "n", "k", ">">>
MsgOpenPrefix == <<"<", "m", "s", "g">>
MsgOpen == <<"<", "m", "s", "g", ">">>
MsgClose == <<"<", "/", "m", "s", "g", ">">>
Gt == <<">">>

\* warningMessage; a TLA+ string cannot hold the grave accent, written (grave)
WarningSuffix ==
  <<"\n", "\n", "-", "-", "-", "\n",
    "*Warning: LLM did not correctly format this part of the message. ",
    "It should have been wrapped in ", "(grave)", "<msg>", "(grave)", " tags.*">>

\* the white space String.prototype.trim() removes (of the model's alphabet)
IsSpace(c) == c \in {" ", "\n"}

\* the indices trim() keeps: from the first character that is not white
\* space to the last one (lead, tail: the white space at either end)
TrimIdx(s) ==
  LET n == Len(s)
      lead == CHOOSE k \in 0..n :
                /\ \A j \in 1..k : IsSpace(s[j])
                /\ k = n \/ ~IsSpace(s[k + 1])
      tail == CHOOSE k \in 0..n :
                /\ \A j \in 1..k : IsSpace(s[n + 1 - j])
                /\ k = n \/ ~IsSpace(s[n - k])
  IN IF lead = n THEN <<>> ELSE Range(lead + 1, n - tail)

Trim(s) == Pick(s, TrimIdx(s))

\* join(sep) of an array of strings
\* the strings of ss put together with nothing between them
JoinWithoutSeparator(ss, sep) == Flatten(ss)

RECURSIVE Join(_, _)
Join(ss, sep) ==
  IF ss = <<>> THEN <<>>
  ELSE IF Len(ss) = 1 THEN ss[1]
  ELSE ss[1] \o sep \o Join(Tail(ss), sep)

(***************************************************************************)
(* The segmenter's regular expressions.                                    *)
(***************************************************************************)
\* s.replace(/<think>[\s\S]*?<\/think>/g, ""): the indices of s that are kept.
\* One left-to-right pass: the leftmost "<think>" that a "</think>" follows
\* is removed up to the first such "</think>", and the pass goes on after
\* it; the result is not scanned again.
RECURSIVE ThinkKeepFrom(_, _)
ThinkKeepFrom(s, i) ==
  LET o == IndexFrom(s, ThinkOpen, i)
      c == IF o = 0 THEN 0 ELSE IndexFrom(s, ThinkClose, o + Len(ThinkOpen))
  IN IF c = 0 THEN Range(i, Len(s))
     ELSE Range(i, o - 1) \o ThinkKeepFrom(s, c + Len(ThinkClose))

StripThinkIdx(s) == ThinkKeepFrom(s, 1)

StripThink(s) == Pick(s, StripThinkIdx(s))

NoMatch == [start |-> 0, gt |-> 0, close |-> 0]

\* /<msg(?:[^>]*)>([\s\S]*?)<\/msg>/ tried at index i: "<msg", then everything
\* up to the first ">", then the shortest inner text followed by "</msg>"
MsgMatchAt(s, i) ==
  IF ~MatchAt(s, i, MsgOpenPrefix) THEN NoMatch
  ELSE LET g == IndexFrom(s, Gt, i + Len(MsgOpenPrefix))
           c == IF g = 0 THEN 0 ELSE IndexFrom(s, MsgClose, g + 1)
       IN IF c = 0 THEN NoMatch ELSE [start |-> i, gt |-> g, close |-> c]

\* tagRegex.exec(s) with lastIndex = from - 1: the leftmost match at or after
\* from. When the leftmost "<msg" at or after from does not match (no ">" or
\* no "</msg>" after it), no later one does.
MsgExec(s, from) ==
  LET o == IndexFrom(s, MsgOpenPrefix, from)
  IN IF o = 0 THEN NoMatch ELSE MsgMatchAt(s, o)

\* the successive matches of the while (exec) loop
RECURSIVE MsgMatchesFrom(_, _)
MsgMatchesFrom(s, from) ==
  LET m == MsgExec(s, from)
  IN IF m = NoMatch THEN <<>>
     ELSE <<m>> \o MsgMatchesFrom(s, m.close + Len(MsgClose))

MsgMatches(s) == MsgMatchesFrom(s, 1)

\* a test that lets every text through
NonBlankAlways(s) == TRUE

\* if (innerContent.trim()), if (streamBuffer.trim())
NonBlank(s) == Trim(s) # <<>>

\* a buffer that keeps what was scanned
RestKeepAll(s, lastIndex) == s

\* streamBuffer.substring(lastIndex), lastIndex 0-based
Rest(s, lastIndex) == SubSeq(s, lastIndex + 1, Len(s))

\* One "line" event carrying a well-formed chunk with content delta.
\* buf/pos: streamBuffer and, for each of its characters, its position in the
\* stream (history only); base: the number of characters received before.
LineStep(buf, pos, delta, base) ==
  LET raw == buf \o delta
      rawPos == pos \o Range(base + 1, base + Len(delta))
      k1 == StripThinkIdx(raw)
      s1 == Pick(raw, k1)
      p1 == Pick(rawPos, k1)
      k2 == TrimIdx(s1)
      s2 == Pick(s1, k2)
      p2 == Pick(p1, k2)
      ms == MsgMatches(s2)
      seg(m) == [inner |-> SubSeq(s2, m.gt + 1, m.close - 1),
                 full |-> SubSeq(s2, m.start, m.close + Len(MsgClose) - 1),
                 deliver |-> SubSeq(s2, m.gt + 1, m.close - 1),
                 pos |-> SubSeq(p2, m.start, m.close + Len(MsgClose) - 1)]
      all == [k \in 1..Len(ms) |-> seg(ms[k])]
      lastIndex == IF ms = <<>> THEN 0
                   ELSE ms[Len(ms)].close + Len(MsgClose) - 1
  IN [buffer |-> Rest(s2, lastIndex),
      bufPos |-> Rest(p2, lastIndex),
      segs |-> SelectSeq(all, LAMBDA g : NonBlank(g.inner))]

\* a catch block that gives the buffer up
CaughtStepDropsBuffer(buf, pos) ==
  [buffer |-> <<>>, bufPos |-> <<>>, segs |-> <<>>]

\* The line handler when its try block throws at JSON.parse or at the
\* access to the delta: nothing has been assigned yet.
CaughtStep(buf, pos) == [buffer |-> buf, bufPos |-> pos, segs |-> <<>>]

\* a flush that stores the leftover as it is sent
FlushStoresDelivered(buf, pos) ==
  IF Trim(buf) = <<>> THEN <<>>
  ELSE LET k1 == StripThinkIdx(buf)
           s1 == Pick(buf, k1)
           k2 == TrimIdx(s1)
           cleanedLeftover == Pick(s1, k2)
       IN IF cleanedLeftover = <<>> THEN <<>>
          ELSE <<[inner |-> cleanedLeftover,
                  full |-> MsgOpen \o cleanedLeftover \o WarningSuffix \o MsgClose,
                  deliver |-> cleanedLeftover \o WarningSuffix,
                  pos |-> Pick(Pick(pos, k1), k2)]>>

\* The leftover handling of the "close" handler: at most one segment.
Flush(buf, pos) ==
  IF Trim(buf) = <<>> THEN <<>>
  ELSE LET k1 == StripThinkIdx(buf)
           s1 == Pick(buf, k1)
           k2 == TrimIdx(s1)
           cleanedLeftover == Pick(s1, k2)
       IN IF cleanedLeftover = <<>> THEN <<>>
          ELSE <<[inner |-> cleanedLeftover,
                  full |-> MsgOpen \o cleanedLeftover \o MsgClose,
                  deliver |-> cleanedLeftover \o WarningSuffix,
                  pos |-> Pick(Pick(pos, k1), k2)]>>

(***************************************************************************)
(* The mention test: new RegExp(`\\b${name}\\b`, "i").test(text).          *)
(* The agent's name is used as a pattern: of the characters of the model's *)
(* alphabet, "." is the one that is a metacharacter (any character but a   *)
(* line terminator); letters match without regard to case.                 *)
(***************************************************************************)
UpperCase == <<"A", "B", "C", "D", "E", "F", "G", "H", "I", "J", "K", "L", "M",
               "N", "O", "P", "Q", "R", "S", "T", "U", "V", "W", "X", "Y", "Z">>
LowerCase == <<"a", "b", "c", "d", "e", "f", "g", "h", "i", "j", "k", "l", "m",
               "n", "o", "p", "q", "r", "s", "t", "u", "v", "w", "x", "y", "z">>

UpperSet == {UpperCase[i] : i \in 1..Len(UpperCase)}

LowerOf ==
  [c \in UpperSet |-> LowerCase[CHOOSE i \in 1..Len(UpperCase) : UpperCase[i] = c]]

ToLower(c) == IF c \in UpperSet THEN LowerOf[c] ELSE c

\* \w
WordChars ==
  UpperSet \cup {LowerCase[i] : i \in 1..Len(LowerCase)}
    \cup {"0", "1", "2", "3", "4", "5", "6", "7", "8", "9", "_"}

IsWordChar(c) == c \in WordChars

\* \b before index i of s (i = Len(s) + 1: at the end)
WordBoundary(s, i) ==
  LET before == i >= 2 /\ i - 1 <= Len(s) /\ IsWordChar(s[i - 1])
      after == i >= 1 /\ i <= Len(s) /\ IsWordChar(s[i])
  IN before # after

\* one pattern character against one text character, flag i
PatternChar(p, c) ==
  IF p = "." THEN c # "\n" ELSE ToLower(p) = ToLower(c)

MentionTest(name, text) ==
  \E i \in 1..(Len(text) - Len(name) + 1) :
    /\ WordBoundary(text, i)
    /\ \A k \in 1..Len(name) : PatternChar(name[k], text[i + k - 1])
    /\ WordBoundary(text, i + Len(name))

(***************************************************************************)
(* chatHistoryForLLM: the messages of the completion request.              *)
(***************************************************************************)
\* the constant's text, as one symbol (it is not blank)
MULTI_MSG_INSTRUCTIONS == <<"**Multi-Message Formatting Instructions:** ...">>

\* a prompt that is always both halves
PromptThenInstructions(systemPromptText, instructions) ==
  systemPromptText \o <<"\n", "\n">> \o instructions

\* effectiveSystemPromptContent, for the agent's prompt and the instructions
EffectiveSystemPromptContent(systemPromptText, instructions) ==
  IF Trim(systemPromptText) # <<>>
  THEN IF Trim(instructions) # <<>>
       THEN systemPromptText \o <<"\n", "\n">> \o instructions
       ELSE systemPromptText
  ELSE IF Trim(instructions) # <<>> THEN instructions ELSE <<>>

\* 1. the system entry
SystemEntries(effective) ==
  IF Trim(effective) # <<>>
  THEN <<[role |-> "system", content |-> effective]>>
  ELSE <<>>

\* a helper that only trims
TrimOnly(content) == Trim(content)

\* content.match(/^<msg(?:[^>]*)?>([\s\S]*?)<\/msg>$/): "<msg" at the start,
\* the first ">" after it, and "</msg>" at the very end, after that ">"
StripMsgTagsForOwnAssistant(content) ==
  LET g == IF MatchAt(content, 1, MsgOpenPrefix)
           THEN IndexFrom(content, Gt, Len(MsgOpenPrefix) + 1)
           ELSE 0
      c == Len(content) - Len(MsgClose) + 1
  IN IF g # 0 /\ c > g /\ MatchAt(content, c, MsgClose)
     THEN Trim(SubSeq(content, g + 1, c - 1))
     ELSE Trim(content)

RoleForLLM(dbMsg, agent) ==
  IF dbMsg.role = "assistant" /\ dbMsg.agentId = agent THEN "assistant" ELSE "user"

\* a derivation that keeps the tags of every row
ContentForLLMKeepsTags(dbMsg, agent) == dbMsg.content

ContentForLLM(dbMsg, agent) ==
  IF dbMsg.role = "assistant" /\ dbMsg.agentId = agent
  THEN StripMsgTagsForOwnAssistant(dbMsg.content)
  ELSE dbMsg.content

\* a merge that pushes every entry
MergesNever(last, roleForLLM) == FALSE

\* the test under "Merge if:" (contents from the store are strings)
Merges(last, roleForLLM) == last.role = roleForLLM /\ roleForLLM # "system"

\* one round of the for loop over recentMessages
AddHistorical(chat, dbMsg, agent) ==
  LET roleForLLM == RoleForLLM(dbMsg, agent)
      contentForLLM == ContentForLLM(dbMsg, agent)
  IN IF Trim(contentForLLM) = <<>> THEN chat
     ELSE IF chat # <<>> /\ Merges(chat[Len(chat)], roleForLLM)
     THEN [chat EXCEPT ![Len(chat)].content =
                          Trim(@ \o <<"\n">> \o contentForLLM)]
     ELSE Append(chat, [role |-> roleForLLM, content |-> contentForLLM])

\* 2. the historical messages
RECURSIVE AddHistory(_, _, _)
AddHistory(chat, recent, agent) ==
  IF recent = <<>> THEN chat
  ELSE AddHistory(AddHistorical(chat, Head(recent), agent), Tail(recent), agent)

\* a current message that is pushed whatever its text
CurrentEntriesAlways(currentUserContent) ==
  <<[role |-> "user", content |-> currentUserContent]>>

\* 3. the current message (a string: the message carries no attachment)
CurrentEntries(currentUserContent) ==
  IF Trim(currentUserContent) # <<>>
  THEN <<[role |-> "user", content |-> currentUserContent]>>
  ELSE <<>>

ChatHistoryForLLM(systemPromptText, instructions, agent, recent, currentUserContent) ==
  AddHistory(SystemEntries(EffectiveSystemPromptContent(systemPromptText,
                                                        instructions)),
             recent, agent)
    \o CurrentEntries(currentUserContent)

\* the schema's default of column contextWindow, and the 10 of "|| 10"
DefaultContextWindow == 10

\* guildSettings.contextWindow || 10 (no row: {} .contextWindow is undefined)
ContextWindowOf(gs) ==
  IF gs.present /\ gs.contextWindow # 0 THEN gs.contextWindow
  ELSE DefaultContextWindow

\* a history that is left as the query returned it: newest first
RecentMessagesNewestFirst(store) ==
  LET n == 2 * ContextWindowOf(guildSettings)
      k == IF Len(store) <= n THEN Len(store) ELSE n
  IN [i \in 1..k |-> store[Len(store) - i + 1]] \o <<>>

\* a history that was loaded before the turn's own row was inserted
RecentMessagesWithoutNewest(store) ==
  IF store = <<>> THEN <<>> ELSE SubSeq(store, 1, Len(store) - 1)

\* recentMessages: the newest 2 * contextWindow rows of the channel's agents,
\* oldest first (the store is kept in id order)
RecentMessages(store) ==
  LET ids == {allAgentsInChannel[k].id : k \in 1..Len(allAgentsInChannel)}
      rows == SelectSeq(store, LAMBDA r : r.agentId \in ids)
      limit == 2 * ContextWindowOf(guildSettings)
  IN IF Len(rows) <= limit THEN rows
     ELSE SubSeq(rows, Len(rows) - limit + 1, Len(rows))

(***************************************************************************)
(* agentLoop, up to its first suspension (await fetch).                    *)
(***************************************************************************)
\* guildSettings.loopDepth || 2 (no row: {} .loopDepth is undefined)
MaxLoopDepthOf(gs) ==
  IF gs.present /\ gs.loopDepth # 0 THEN gs.loopDepth ELSE DefaultLoopDepth

\* a ceiling that lets one more level through
DepthExceededLate(depth, maxLoopDepth) == depth > maxLoopDepth + 1

\* if (depth > maxLoopDepth) return
DepthExceeded(depth, maxLoopDepth) == depth > maxLoopDepth

PreviousAgent == <<"PreviousAgent">>

\* authorName; username is message.author.username of a human message
AuthorName(depth, username, agentId) ==
  IF depth = 0 THEN username
  ELSE IF \E k \in 1..Len(allAgentsInChannel) : allAgentsInChannel[k].id = agentId
       THEN allAgentsInChannel[
              SetMin({k \in 1..Len(allAgentsInChannel) :
                        allAgentsInChannel[k].id = agentId})].name
       ELSE PreviousAgent

\* `<msg from="${authorName}">${allTextForProcessing.trim()}</msg>`
TextContentForDB(authorName, text) ==
  <<"<", "m", "s", "g", " ", "f", "r", "o", "m", "=", "\"">> \o authorName
    \o <<"\"", ">">> \o Trim(text) \o MsgClose

NoAuthor == <<>>

ConfigErrorNotFound == <<"Configuration error: Provider not found.">>
ConfigErrorKey == <<"Configuration error: Could not access API key.">>
InvalidProviderUrl == <<"Invalid provider URL configured.">>
ErrorContacting == <<"Error contacting LLM provider.">>
\* the status line of the message; the details follow it
ProviderReturnedError == <<"LLM Provider returned an error. Details: ">>

\* the 500 of errorBody.substring(0, 500)
ErrorBodyMax == 500

\* a substring that keeps everything
SubstringAll(s, start, end) == s

\* String.prototype.substring(start, end), 0 <= start <= end
Substring(s, start, end) ==
  SubSeq(s, start + 1, IF end < Len(s) THEN end ELSE Len(s))
EmptyResponse == <<"Received an empty response from LLM provider.">>

\* a provider that is never found wanting
ProviderUsableAlways(row) == TRUE

\* the providers row is found, its key decrypts and its URL parses
ProviderUsable(row) == row = "ok"

\* a store that keeps its newest row only
InsertOverOldest(store, rows) ==
  IF store = <<>> \/ rows = <<>> THEN store \o rows
  ELSE <<store[Len(store)]>> \o rows

\* a store whose new rows come to lie before the rows it holds
InsertAtFront(store, rows) == rows \o store

\* db.prepare("INSERT INTO messages ...").run(...), once per row of rows: the
\* new rows get the next ids
Insert(store, rows) == store \o rows

\* A new invocation id of agentLoop(message, agent, allAgentsInChannel, depth):
\* the record of the invocation and what it inserts, sends and fetches before
\* it first suspends or returns. parent = 0: called for a human message.
AgentLoopEntry(id, agent, depth, parent, content, agentId, username, store) ==
  LET maxLoopDepth == MaxLoopDepthOf(guildSettings)
      stop == DepthExceeded(depth, maxLoopDepth)
      authorName == AuthorName(depth, username, agentId)
      pc == IF stop THEN "stopped"
            ELSE IF ~ProviderUsable(provider[agent]) THEN "cfgerr"
            ELSE "fetching"
      turn == [agent |-> agent, depth |-> depth, parent |-> parent,
               maxLoopDepth |-> maxLoopDepth, content |-> content,
               agentId |-> agentId, authorName |-> authorName, pc |-> pc,
               deltas |-> <<>>, streamBuffer |-> <<>>,
               fullRepliesContent |-> <<>>, combinedReplyText |-> <<>>,
               scanIdx |-> 0, awaiting |-> 0,
               \* history of the stream, for stating the properties
               consumed |-> <<>>, bufPos |-> <<>>, emitPos |-> <<>>,
               ended |-> "no", atEnd |-> <<>>, nLine |-> 0,
               \* the body of a response whose status is not ok
               errorBody |-> <<>>,
               \* history: the deltas of the chunks handled, and how much
               \* had been consumed when each malformed line came
               fed |-> <<>>, badAt |-> <<>>,
               \* history: what the turn had inserted, sent, fetched and
               \* invoked when its stream failed; the sends that were rejected
               atError |-> <<>>, rejected |-> {}]
      dbAdd == IF stop THEN <<>>
               ELSE <<[agentId |-> agent, role |-> "user",
                       content |-> TextContentForDB(authorName, content),
                       author |-> authorName, turn |-> id]>>
  IN [turn |-> turn,
      dbAdd |-> dbAdd,
      sentAdd |-> IF pc # "cfgerr" THEN <<>>
                  ELSE <<[turn |-> id, via |-> "channel",
                          content |-> CASE provider[agent] = "missing" -> ConfigErrorNotFound
                                        [] provider[agent] = "badkey" -> ConfigErrorKey
                                        [] OTHER -> InvalidProviderUrl]>>,
      callAdd |-> IF pc = "fetching"
                  THEN <<[turn |-> id, agent |-> agent,
                          messages |-> ChatHistoryForLLM(
                                         systemPrompt[agent],
                                         MULTI_MSG_INSTRUCTIONS, agent,
                                         RecentMessages(store \o dbAdd),
                                         content)]>>
                  ELSE <<>>]

\* a scan that does not pass over the replying agent
NextMentionWithSelf(agent, combinedReplyText, from) ==
  LET c == {j \in from..Len(allAgentsInChannel) :
              MentionTest(allAgentsInChannel[j].name, combinedReplyText)}
  IN IF c = {} THEN 0 ELSE SetMin(c)

\* a scan that is given up once the turn of a peer it invoked has failed
NextMentionUntilFailure(agent, combinedReplyText, from) ==
  LET c == {j \in from..Len(allAgentsInChannel) :
              /\ allAgentsInChannel[j].id # agent
              /\ MentionTest(allAgentsInChannel[j].name, combinedReplyText)}
      failed == \E u \in 1..Len(turns) :
                  /\ turns[u].pc \in {"cfgerr", "neterr"}
                  /\ turns[u].parent # 0
                  /\ turns[turns[u].parent].agent = agent
  IN IF c = {} \/ failed THEN 0 ELSE SetMin(c)

\* the first peer at or after index from of allAgentsInChannel that the
\* "close" handler's for loop re-invokes agentLoop for; 0: none
NextMention(agent, combinedReplyText, from) ==
  LET c == {j \in from..Len(allAgentsInChannel) :
              /\ allAgentsInChannel[j].id # agent
              /\ MentionTest(allAgentsInChannel[j].name, combinedReplyText)}
  IN IF c = {} THEN 0 ELSE SetMin(c)

\* The for loop of the "close" handler of turn t from peer index from, up to
\* its next await: the next mentioned peer's agentLoop is invoked and runs
\* to its own first suspension; without one the handler ends.
ScanFrom(t, ts, d, s, from) ==
  LET T == ts[t]
      j == NextMention(T.agent, T.combinedReplyText, from)
      c == Len(ts) + 1
      e == AgentLoopEntry(c, allAgentsInChannel[j].id, T.depth + 1, t,
                          T.combinedReplyText, T.agent, <<>>, d)
  IN IF j = 0
     THEN /\ turns' = [ts EXCEPT ![t].pc = "done"]
          /\ db' = d
          /\ sent' = s
          /\ calls' = calls
     ELSE /\ turns' = Append([ts EXCEPT ![t].pc = "scan", ![t].scanIdx = j,
                                        ![t].awaiting = c], e.turn)
          /\ db' = Insert(d, e.dbAdd)
          /\ sent' = s \o e.sentAdd
          /\ calls' = calls \o e.callAdd

\* The "close" handler of turn t, entered with streamBuffer = buf.
CloseHandler(t, buf, pos, how) ==
  LET T == turns[t]
      fl == Flush(buf, pos)
      replies == T.fullRepliesContent \o [k \in 1..Len(fl) |-> fl[k].inner]
      T1 == [T EXCEPT !.streamBuffer = <<>>, !.bufPos = <<>>,
                      !.fullRepliesContent = replies,
                      !.combinedReplyText = Join(replies, <<" ">>),
                      !.emitPos = @ \o [k \in 1..Len(fl) |-> fl[k].pos],
                      !.ended = how, !.atEnd = T.streamBuffer]
  IN ScanFrom(t, [turns EXCEPT ![t] = T1],
              Insert(db, [k \in 1..Len(fl) |->
                            [agentId |-> T.agent, role |-> "assistant",
                             content |-> fl[k].full, author |-> NoAuthor,
                             turn |-> t]]),
              sent \o [k \in 1..Len(fl) |->
                         [turn |-> t, via |-> "webhook", content |-> fl[k].deliver]],
              1)

(***************************************************************************)
(* Inputs.                                                                 *)
(***************************************************************************)
Agents == <<[id |-> 1, name |-> <<"A", "l">>],
            [id |-> 2, name |-> <<"B", "o">>],
            [id |-> 3, name |-> <<"C", ".">>]>>

Usernames == {<<"K", "i", "m">>}

HumanTexts == {<<"h", "i", " ">>}

SettingsRows ==
  {[present |-> FALSE, contextWindow |-> 0, loopDepth |-> 0]}
    \cup {[present |-> TRUE, contextWindow |-> DefaultContextWindow,
            loopDepth |-> n] : n \in 0..MaxLoopSetting}

\* the providers rows and the endpoints' behaviour that are tried together
EnvConfigs ==
  {[provider |-> [a \in 1..3 |-> "ok"], remote |-> [a \in 1..3 |-> "ok"]],
   [provider |-> [a \in 1..3 |-> IF a = 2 THEN "missing" ELSE "ok"],
    remote |-> [a \in 1..3 |-> IF a = 3 THEN "network" ELSE "ok"]],
   [provider |-> [a \in 1..3 |-> IF a = 3 THEN "badkey" ELSE "ok"],
    remote |-> [a \in 1..3 |-> IF a = 2 THEN "status" ELSE "ok"]],
   [provider |-> [a \in 1..3 |-> IF a = 1 THEN "badurl" ELSE "ok"],
    remote |-> [a \in 1..3 |-> IF a = 2 THEN "nobody" ELSE "ok"]]}

\* agents.systemPrompt: the text of the file given to /agent create
AgentPrompts == <<<<"B", "e">>, <<>>, <<"\n">>>>

\* the bodies of the responses whose status is not ok: none, and just
\* within and just beyond what is reported
ErrorBodies ==
  {[k \in 1..n |-> "e"] \o <<>> : n \in {0, ErrorBodyMax, ErrorBodyMax + 1}}

\* the delta sequences a remote completion streams in the orchestrator's runs
ReplyStreams ==
  {<<MsgOpen \o <<"b", "o">> \o MsgClose>>,
   <<MsgOpen \o <<"A", "l">> \o MsgClose, MsgOpen \o <<"B", "o", " ", "c", "y">>>>,
   <<MsgOpen \o <<"o", "k", " ", "C", ".">> \o MsgClose>>}

(***************************************************************************)
(* Actions.                                                                *)
(***************************************************************************)
\* no message has been received: the Map yapTimers is empty, no timer is set
YapIdle ==
  /\ yapTimers = <<>>
  /\ timeouts = {}
  /\ inbound = <<>>
  /\ starts = <<>>

Roots == {t \in 1..Len(turns) : turns[t].parent = 0}

\* messageCreate: agentLoop(message, agent, allAgentsInChannel, 0)
RootTurn(agent, username, text) ==
  /\ Cardinality(Roots) < MaxRoots
  /\ LET e == AgentLoopEntry(Len(turns) + 1, agent, 0, 0, text, 0, username, db)
     IN /\ turns' = Append(turns, e.turn)
        /\ db' = Insert(db, e.dbAdd)
        /\ sent' = sent \o e.sentAdd
        /\ calls' = calls \o e.callAdd
  /\ UNCHANGED <<config, yapvars>>

\* await fetch(...) resolves with an ok response that has a body: the stream
\* handlers are registered and agentLoop returns
FetchAnswered(t, stream) ==
  /\ turns[t].pc = "fetching"
  /\ remote[turns[t].agent] = "ok"
  /\ turns' = [turns EXCEPT ![t].pc = "streaming", ![t].deltas = stream]
  /\ UNCHANGED <<config, yapvars, db, sent, calls>>

\* the same, as long as fewer than MaxTurns invocations have been made
FetchOk(t, stream) ==
  /\ Len(turns) < MaxTurns
  /\ FetchAnswered(t, stream)

\* fetch rejects, or resolves with a non-ok status or a null body
FetchFail(t, kind) ==
  /\ turns[t].pc = "fetching"
  /\ remote[turns[t].agent] = kind
  /\ \E errorBody \in IF kind = "status" THEN ErrorBodies ELSE {<<>>} :
       /\ turns' = [turns EXCEPT ![t].pc = "neterr", ![t].errorBody = errorBody]
       /\ sent' = Append(sent, [turn |-> t, via |-> "channel",
                                content |->
                                  CASE kind = "network" -> ErrorContacting
                                    [] kind = "status" ->
                                         ProviderReturnedError
                                           \o Substring(errorBody, 0, ErrorBodyMax)
                                    [] OTHER -> EmptyResponse])
  /\ UNCHANGED <<config, yapvars, db, calls>>

\* "line" event: data: {choices: [{delta: {content: delta}}]}
Line(t) ==
  /\ turns[t].pc = "streaming"
  /\ turns[t].deltas # <<>>
  /\ LET T == turns[t]
         delta == Head(T.deltas)
         r == LineStep(T.streamBuffer, T.bufPos, delta, Len(T.consumed))
         n == Len(r.segs)
     IN /\ turns' = [turns EXCEPT ![t] =
                       [T EXCEPT !.deltas = Tail(T.deltas),
                                 !.streamBuffer = r.buffer,
                                 !.fullRepliesContent =
                                    @ \o [k \in 1..n |-> r.segs[k].inner],
                                 !.consumed = @ \o delta,
                                 !.fed = Append(@, delta),
                                 !.bufPos = r.bufPos,
                                 !.emitPos = @ \o [k \in 1..n |-> r.segs[k].pos],
                                 !.nLine = @ + n]]
        /\ sent' = sent \o [k \in 1..n |->
                              [turn |-> t, via |-> "webhook",
                               content |-> r.segs[k].deliver]]
        /\ db' = Insert(db, [k \in 1..n |->
                                [agentId |-> T.agent, role |-> "assistant",
                                 content |-> r.segs[k].full, author |-> NoAuthor,
                                 turn |-> t]])
  /\ UNCHANGED <<config, yapvars, calls>>

\* "line" event with a payload on which JSON.parse, or the access to
\* choices[0].delta.content, throws: the catch block
BadLine(t) ==
  /\ turns[t].pc = "streaming"
  /\ Len(turns[t].badAt) < MaxBadLines
  /\ LET T == turns[t]
         r == CaughtStep(T.streamBuffer, T.bufPos)
     IN turns' = [turns EXCEPT ![t] =
                    [T EXCEPT !.streamBuffer = r.buffer,
                              !.bufPos = r.bufPos,
                              !.badAt = Append(@, Len(T.consumed))]]
  /\ UNCHANGED <<config, yapvars, db, sent, calls>>

\* "line" event: data: [DONE] -- streamBuffer = "", lineReader.close()
Done(t) ==
  /\ turns[t].pc = "streaming"
  /\ turns[t].deltas = <<>>
  /\ CloseHandler(t, <<>>, <<>>, "done")
  /\ UNCHANGED <<config, yapvars>>

\* "close" event at the end of a stream that carried no [DONE]
Close(t) ==
  /\ turns[t].pc = "streaming"
  /\ turns[t].deltas = <<>>
  /\ CloseHandler(t, turns[t].streamBuffer, turns[t].bufPos, "eof")
  /\ UNCHANGED <<config, yapvars>>

\* a rejection handler that gives the stream up
WebhookSendCaughtStops(T, k) ==
  [T EXCEPT !.rejected = @ \cup {k}, !.pc = "done", !.deltas = <<>>,
            !.streamBuffer = <<>>]

\* webhookClient.send(...).catch((e) => console.error(...)): the rejection of
\* the send that is entry k of sent is logged
WebhookSendCaught(T, k) == [T EXCEPT !.rejected = @ \cup {k}]

\* the promise of a webhook send of turn t is rejected
SendRejected(t, k) ==
  /\ sent[k].turn = t
  /\ sent[k].via = "webhook"
  /\ k \notin turns[t].rejected
  /\ Cardinality(turns[t].rejected) < MaxRejects
  /\ turns' = [turns EXCEPT ![t] = WebhookSendCaught(turns[t], k)]
  /\ UNCHANGED <<config, yapvars, db, sent, calls>>

\* `An error occurred while processing the LLM response for agent "${agent.name}".`
StreamErrorMessage(name) ==
  <<"An error occurred while processing the LLM response for agent \"">>
    \o name \o <<"\".">>

\* an "error" handler after which the stream is read on
OnErrorReadsOn(T) == T

\* the "error" handler leaves streamBuffer and fullRepliesContent alone; the
\* interface emits neither "line" nor "close" after "error"
OnError(T) == [T EXCEPT !.pc = "strerr"]

\* what turn t has inserted, sent through its webhook, fetched and invoked
Footprint(t) ==
  [db |-> Len(SelectSeq(db, LAMBDA r : r.turn = t)),
   webhook |-> Len(SelectSeq(sent, LAMBDA m : m.turn = t /\ m.via = "webhook")),
   calls |-> Len(SelectSeq(calls, LAMBDA c : c.turn = t)),
   children |-> Cardinality({u \in 1..Len(turns) : turns[u].parent = t})]

\* "error" event of the line reader: the body's stream failed
StreamError(t) ==
  /\ turns[t].pc = "streaming"
  /\ turns[t].atError = <<>>
  /\ LET T == turns[t]
     IN /\ turns' = [turns EXCEPT ![t] = [OnError(T) EXCEPT !.atError = <<Footprint(t)>>]]
        /\ sent' = Append(sent, [turn |-> t, via |-> "channel",
                                 content |-> StreamErrorMessage(
                                               allAgentsInChannel[T.agent].name)])
  /\ UNCHANGED <<config, yapvars, db, calls>>

\* await agentLoop(...) of the "close" handler resumes once the invoked
\* agentLoop has returned; the for loop goes on with the next peer
ScanResume(t) ==
  /\ turns[t].pc = "scan"
  /\ turns[turns[t].awaiting].pc # "fetching"
  /\ ScanFrom(t, turns, db, sent, turns[t].scanIdx + 1)
  /\ UNCHANGED <<config, yapvars>>

Init ==
  /\ allAgentsInChannel = Agents
  /\ guildSettings \in SettingsRows
  /\ \E env \in EnvConfigs : provider = env.provider /\ remote = env.remote
  /\ systemPrompt = AgentPrompts
  /\ yapSettings = {}
  /\ YapIdle
  /\ turns = <<>>
  /\ db = <<>>
  /\ sent = <<>>
  /\ calls = <<>>

Next ==
  \/ \E a \in 1..Len(allAgentsInChannel), u \in Usernames, x \in HumanTexts :
       RootTurn(a, u, x)
  \/ \E t \in 1..Len(turns) :
       \/ \E stream \in ReplyStreams : FetchOk(t, stream)
       \/ \E kind \in {"network", "status", "nobody"} : FetchFail(t, kind)
       \/ Line(t)
       \/ Done(t)
       \/ Close(t)
       \/ ScanResume(t)

Spec == Init /\ [][Next]_vars

(***************************************************************************)
(* The orchestrator in a guild without a settings row, with providers that *)
(* always answer and streams that may fail while they are read.            *)
(***************************************************************************)
ErrInit ==
  /\ Init
  /\ ~guildSettings.present
  /\ \A a \in 1..Len(allAgentsInChannel) : provider[a] = "ok" /\ remote[a] = "ok"

ErrNext ==
  \/ \E a \in 1..Len(allAgentsInChannel), u \in Usernames, x \in HumanTexts :
       RootTurn(a, u, x)
  \/ \E t \in 1..Len(turns) :
       \/ \E stream \in ReplyStreams : FetchOk(t, stream)
       \/ Line(t)
       \/ StreamError(t)
       \/ Done(t)
       \/ Close(t)
       \/ ScanResume(t)

SpecErr == ErrInit /\ [][ErrNext]_vars

(***************************************************************************)
(* The orchestrator in a channel where one agent, Bo, cannot answer: its   *)
(* providers row is missing, or its endpoint cannot be reached. The other  *)
(* agents answer.                                                          *)
(***************************************************************************)
PeerInit ==
  /\ allAgentsInChannel = Agents
  /\ guildSettings = [present |-> FALSE, contextWindow |-> 0, loopDepth |-> 0]
  /\ \E kind \in {"missing", "network"} :
       /\ provider = [a \in 1..3 |-> IF a = 2 /\ kind = "missing" THEN kind ELSE "ok"]
       /\ remote = [a \in 1..3 |-> IF a = 2 /\ kind = "network" THEN kind ELSE "ok"]
  /\ systemPrompt = AgentPrompts
  /\ yapSettings = {}
  /\ YapIdle
  /\ turns = <<>>
  /\ db = <<>>
  /\ sent = <<>>
  /\ calls = <<>>

SpecPeer == PeerInit /\ [][Next]_vars

(***************************************************************************)
(* The orchestrator with every fetch answered, however many invocations    *)
(* there have been: three agents under /loopdepth 1, and the two agents Al *)
(* and Bo in a guild without a settings row (ceiling 2). The handlers for  *)
(* which events are pending are run: a fetch that is awaited resolves, a   *)
(* stream delivers its lines and ends, an await of the scan resumes.       *)
(***************************************************************************)
LiveInit ==
  /\ \/ /\ allAgentsInChannel = Agents
        /\ guildSettings = [present |-> TRUE, contextWindow |-> DefaultContextWindow,
                            loopDepth |-> 1]
     \/ /\ allAgentsInChannel = SubSeq(Agents, 1, 2)
        /\ guildSettings = [present |-> FALSE, contextWindow |-> 0, loopDepth |-> 0]
  /\ provider = [a \in 1..3 |-> "ok"]
  /\ remote = [a \in 1..3 |-> "ok"]
  /\ systemPrompt = AgentPrompts
  /\ yapSettings = {}
  /\ YapIdle
  /\ turns = <<>>
  /\ db = <<>>
  /\ sent = <<>>
  /\ calls = <<>>

\* the steps of the turns that are in flight
LiveProgress ==
  \E t \in 1..Len(turns) :
    \/ \E stream \in ReplyStreams : FetchAnswered(t, stream)
    \/ Line(t)
    \/ Done(t)
    \/ Close(t)
    \/ ScanResume(t)

LiveNext ==
  \/ \E a \in 1..Len(allAgentsInChannel), u \in Usernames, x \in HumanTexts :
       RootTurn(a, u, x)
  \/ LiveProgress

\* an event of turn t is pending: the guards of the steps of LiveProgress
Pending(t) ==
  \/ turns[t].pc = "fetching" /\ remote[turns[t].agent] = "ok"
  \/ turns[t].pc = "streaming"
  \/ turns[t].pc = "scan" /\ turns[turns[t].awaiting].pc # "fetching"

\* WF_vars(LiveProgress), with the enabling condition of the step stated by
\* its guards: if from some time on an event is always pending, steps of
\* LiveProgress are taken again and again
LiveFairness ==
  \/ []<>(~\E t \in 1..Len(turns) : Pending(t))
  \/ []<><<LiveProgress>>_vars

SpecLive == LiveInit /\ [][LiveNext]_vars /\ LiveFairness

(***************************************************************************)
(* The segmenter alone: one turn of the only agent of its channel, its     *)
(* stream drawn from every cut of the texts built from SegUnits.           *)
(***************************************************************************)
SegUnits ==
  {<<"a">>, <<" ">>, MsgOpen, MsgClose, ThinkOpen, ThinkClose,
   MsgOpen \o <<"b">> \o MsgClose}

SegTexts ==
  UNION {{Flatten(us) : us \in [1..n -> SegUnits]} : n \in 1..MaxUnits}

\* every way of cutting s into at most k non-empty deltas
RECURSIVE SplitsOf(_, _)
SplitsOf(s, k) ==
  IF k <= 1 \/ Len(s) <= 1 THEN {<<s>>}
  ELSE {<<s>>} \cup
       UNION {{<<SubSeq(s, 1, i)>> \o r :
                 r \in SplitsOf(SubSeq(s, i + 1, Len(s)), k - 1)} :
              i \in 1..(Len(s) - 1)}

FirstPart == <<"F", "i", "r", "s", "t", " ", "p", "a", "r", "t", ".">>
SecondPart == <<"S", "e", "c", "o", "n", "d", " ", "p", "a", "r", "t", ".">>

\* src/tests/agentLoop.test.js, "should handle multiple <msg> tags in stream"
ScenarioStream == <<MsgOpen \o FirstPart \o MsgClose, MsgOpen \o SecondPart>>

\* a message whose deltas are cut after a blank
BlankCutStream == <<MsgOpen \o <<"a", " ">>, <<"b">> \o MsgClose>>

\* a message of one blank, then one more blank
BlankSpanStream == <<MsgOpen \o <<" ">> \o MsgClose, <<" ">>>>

SegStreams ==
  UNION {SplitsOf(s, MaxDeltas) : s \in SegTexts}
    \cup {ScenarioStream, BlankCutStream, BlankSpanStream}

SegInit ==
  /\ allAgentsInChannel = <<Agents[1]>>
  /\ guildSettings = [present |-> FALSE, contextWindow |-> 0, loopDepth |-> 0]
  /\ provider = [a \in 1..3 |-> "ok"]
  /\ remote = [a \in 1..3 |-> "ok"]
  /\ systemPrompt = AgentPrompts
  /\ yapSettings = {}
  /\ YapIdle
  /\ \E stream \in SegStreams :
       LET e == AgentLoopEntry(1, 1, 0, 0, <<"h", "i">>, 0, <<"K", "i", "m">>, <<>>)
       IN /\ turns = <<[e.turn EXCEPT !.pc = "streaming", !.deltas = stream]>>
          /\ db = e.dbAdd
          /\ sent = e.sentAdd
          /\ calls = e.callAdd

SegNext == \E t \in 1..Len(turns) : Line(t) \/ Done(t) \/ Close(t)

SpecSeg == SegInit /\ [][SegNext]_vars

(***************************************************************************)
(* The segmenter with malformed lines: a line whose payload does not parse *)
(* may come at any point of the stream, before its first chunk, between    *)
(* two chunks and after its last one.                                      *)
(***************************************************************************)
BadStreams ==
  UNION {UNION {SplitsOf(Flatten(us), MaxDeltas) : us \in [1..n -> SegUnits]} :
           n \in 1..MaxBadUnits}
    \cup {ScenarioStream, BlankCutStream, BlankSpanStream}

BadInit == SegInit /\ turns[1].deltas \in BadStreams

BadNext ==
  \E t \in 1..Len(turns) : Line(t) \/ BadLine(t) \/ Done(t) \/ Close(t)

SpecBad == BadInit /\ [][BadNext]_vars

(***************************************************************************)
(* The segmenter with webhook sends that may be rejected, at any time      *)
(* after they were made.                                                   *)
(***************************************************************************)
RejNext ==
  \E t \in 1..Len(turns) :
    \/ Line(t)
    \/ Done(t)
    \/ Close(t)
    \/ \E k \in 1..Len(sent) : SendRejected(t, k)

SpecRej == BadInit /\ [][RejNext]_vars

(***************************************************************************)
(* The transcript alone: agentLoop is called once, at depth 0, over a      *)
(* store that earlier turns and earlier versions have filled.              *)
(***************************************************************************)
TextA == <<"A">>

\* rows of table messages: what agentLoop inserts for a human message and
\* for a peer's reply, what its handlers insert for a segment, and one row
\* that carries no <msg> wrapper
TrRows ==
  {[agentId |-> 1, role |-> "user", author |-> <<"K", "i", "m">>, turn |-> 0,
    content |-> TextContentForDB(<<"K", "i", "m">>, <<"h", "i">>)],
   [agentId |-> 2, role |-> "user", author |-> <<"A", "l">>, turn |-> 0,
    content |-> TextContentForDB(<<"A", "l">>, TextA)],
   [agentId |-> 1, role |-> "assistant", author |-> NoAuthor, turn |-> 0,
    content |-> MsgOpen \o TextA \o MsgClose],
   [agentId |-> 1, role |-> "assistant", author |-> NoAuthor, turn |-> 0,
    content |-> MsgOpen \o <<" ", "b", " ">> \o MsgClose],
   [agentId |-> 2, role |-> "assistant", author |-> NoAuthor, turn |-> 0,
    content |-> MsgOpen \o TextA \o MsgClose],
   [agentId |-> 1, role |-> "assistant", author |-> NoAuthor, turn |-> 0,
    content |-> <<"d">>]}

\* the first row of a store is a user row: a turn inserts one before all else
TrStores ==
  {<<>>} \cup
  {<<u>> \o rest : u \in {r \in TrRows : r.role = "user"},
                    rest \in UNION {[1..n -> TrRows] : n \in 0..MaxHistory}}

\* no row, and the row /contextwindow 2 writes
TrSettings ==
  {[present |-> FALSE, contextWindow |-> 0, loopDepth |-> 0],
   [present |-> TRUE, contextWindow |-> 2, loopDepth |-> DefaultLoopDepth]}

\* message.content of the event: Discord delivers it trimmed, and it is empty
\* for a message that is only a sticker or an embed
TrTexts == {<<"h", "i">>, <<>>}

TrInit ==
  /\ allAgentsInChannel = Agents
  /\ guildSettings \in TrSettings
  /\ provider = [a \in 1..3 |-> "ok"]
  /\ remote = [a \in 1..3 |-> "ok"]
  /\ systemPrompt = AgentPrompts
  /\ yapSettings = {}
  /\ YapIdle
  /\ turns = <<>>
  /\ db \in TrStores
  /\ sent = <<>>
  /\ calls = <<>>

TrNext ==
  \E a \in 1..Len(allAgentsInChannel), u \in Usernames, x \in TrTexts :
    RootTurn(a, u, x)

SpecTr == TrInit /\ [][TrNext]_vars

(***************************************************************************)
(* The transcript as a function of the history: chatHistoryForLLM is built *)
(* from recentMessages as the query returned them, for every history of    *)
(* MaxFmtHistory rows that starts with a user row. Among the rows is one   *)
(* that no INSERT of this source writes: a reply of Al with a blank inner  *)
(* text, whose derived content is empty for Al.                            *)
(***************************************************************************)
FmtInit ==
  /\ allAgentsInChannel = Agents
  /\ guildSettings = [present |-> FALSE, contextWindow |-> 0, loopDepth |-> 0]
  /\ provider = [a \in 1..3 |-> "ok"]
  /\ remote = [a \in 1..3 |-> "ok"]
  /\ systemPrompt = AgentPrompts
  /\ yapSettings = {}
  /\ YapIdle
  /\ turns = <<>>
  /\ db \in {<<u>> \o rest :
               u \in {r \in TrRows : r.role = "user"},
               rest \in [1..(MaxFmtHistory - 1) ->
                           {r \in TrRows : r.content # <<"d">>}
                             \cup {[agentId |-> 1, role |-> "assistant",
                                     author |-> NoAuthor, turn |-> 0,
                                     content |-> MsgOpen \o <<" ">> \o MsgClose]}]}
  /\ sent = <<>>
  /\ calls = <<>>

\* steps 1 to 3 of the construction of chatHistoryForLLM for agent, with
\* recentMessages = db and the current message's text
Format(agent, text) ==
  /\ calls = <<>>
  /\ calls' = <<[turn |-> 0, agent |-> agent,
                 messages |-> ChatHistoryForLLM(systemPrompt[agent],
                                                MULTI_MSG_INSTRUCTIONS, agent,
                                                db, text)]>>
  /\ UNCHANGED <<config, yapvars, turns, db, sent>>

FmtNext == \E a \in 1..2, x \in TrTexts : Format(a, x)

SpecFmt == FmtInit /\ [][FmtNext]_vars

(***************************************************************************)
(* The debouncer ("yap") and the messageCreate handler. One channel is     *)
(* modelled, so the key agentId_channelId of the Map yapTimers is the      *)
(* agent id. A buffer holds references to Message objects: indices into    *)
(* inbound. The agents are not multimodal. The handler is taken as one     *)
(* step: it runs long before the 3 seconds of the timers it sets.          *)
(***************************************************************************)
\* the key of a pending timer: the message whose handler set it, and the
\* agent id its callback passes to triggerYapReply
TimerId(msg, agentId) == [msg |-> msg, agentId |-> agentId]

ClearTimeoutNever(pending, state) == pending

\* clearTimeout(yapState.timerId) for each state given
ClearTimeout(pending, state) == pending \ {state[a].timerId : a \in DOMAIN state}

\* a buffer that holds the newest message only
YapBufferedNewestOnly(state, enabled, msg) ==
  [a \in DOMAIN state \cup enabled |->
     IF a \in enabled
     THEN [timerId |-> TimerId(msg, a), messageBuffer |-> <<msg>>]
     ELSE state[a]]

\* handleYapMessage: the Map after message msg, for the enabled agents
YapBuffered(state, enabled, msg) ==
  [a \in DOMAIN state \cup enabled |->
     IF a \in enabled
     THEN [timerId |-> TimerId(msg, a),
           messageBuffer |->
             Append(IF a \in DOMAIN state THEN state[a].messageBuffer ELSE <<>>, msg)]
     ELSE state[a]]

\* /^@([^\s@]+)\b/ on the content: the index of the last character of the
\* match, 0 when there is none
MentionMatchEnd(content) ==
  IF content = <<>> \/ content[1] # "@" THEN 0
  ELSE LET stop == {i \in 2..Len(content) : IsSpace(content[i]) \/ content[i] = "@"}
           run == IF stop = {} THEN Len(content) ELSE SetMin(stop) - 1
           ends == {e \in 2..run : WordBoundary(content, e + 1)}
       IN IF ends = {} THEN 0 ELSE SetMax(ends)

\* agents.find(...): the id of the first of the agents at the indices found,
\* 0 if there is none
FindAgent(agents, found) ==
  IF found = {} THEN 0 ELSE agents[SetMin(found)].id

SameNameIgnoringCase(a, b) ==
  Len(a) = Len(b) /\ \A k \in 1..Len(a) : ToLower(a[k]) = ToLower(b[k])

\* the agent a message is addressed to and the content the handler leaves in
\* the Message object: the agent replied to, else the agent of a leading
\* @name, which is then cut off the content, else the first agent named
Addressed(agents, content, reference) ==
  LET at == 1..Len(agents)
      byReply == FindAgent(agents, {k \in at : agents[k].id = reference})
      e == MentionMatchEnd(content)
      byPrefix ==
        IF byReply # 0 \/ e = 0 THEN 0
        ELSE FindAgent(agents,
               {k \in at : SameNameIgnoringCase(agents[k].name, SubSeq(content, 2, e))})
      byName == FindAgent(agents, {k \in at : MentionTest(agents[k].name, content)})
  IN [agent |-> IF byReply # 0 THEN byReply
                ELSE IF byPrefix # 0 THEN byPrefix ELSE byName,
      content |-> IF byPrefix # 0
                  THEN Trim(SubSeq(content, e + 1, Len(content)))
                  ELSE content]

SkippedNever(yappingAgentIds, agent) == FALSE

\* yappingAgentIds.has(agent.id)
Skipped(yappingAgentIds, agent) == agent \in yappingAgentIds

\* a depth 0 call of agentLoop, with what made it
StartTurn(agent, username, content, via, msgs, timer) ==
  LET e == AgentLoopEntry(Len(turns) + 1, agent, 0, 0, content, 0, username, db)
  IN /\ turns' = Append(turns, e.turn)
     /\ db' = Insert(db, e.dbAdd)
     /\ sent' = sent \o e.sentAdd
     /\ calls' = calls \o e.callAdd
     /\ starts' = Append(starts, [turn |-> Len(turns) + 1, via |-> via,
                                  agent |-> agent, msgs |-> msgs, timer |-> timer])

\* client.on("messageCreate") for a message of a human in the guild
MessageCreate(username, text, reference, attachments) ==
  /\ Len(inbound) < MaxInbound
  /\ LET msg == Len(inbound) + 1
         yappingAgentIds == yapSettings
         to == Addressed(allAgentsInChannel, text, reference)
     IN /\ yapTimers' = YapBuffered(yapTimers, yappingAgentIds, msg)
        /\ timeouts' =
             ClearTimeout(timeouts,
                          [a \in DOMAIN yapTimers \cap yappingAgentIds |-> yapTimers[a]])
               \cup {TimerId(msg, a) : a \in yappingAgentIds}
        /\ inbound' = Append(inbound, [author |-> username, content |-> to.content,
                                       original |-> text, reference |-> reference,
                                       attachments |-> attachments, sent |-> 0])
        /\ IF /\ to.agent # 0
              /\ ~Skipped(yappingAgentIds, to.agent)
              /\ ~(Trim(to.content) = <<>> /\ attachments = 0)
           THEN StartTurn(to.agent, username, to.content, "direct", <<msg>>,
                          TimerId(0, 0))
           ELSE UNCHANGED <<turns, db, sent, calls, starts>>
  /\ UNCHANGED config

\* the content of the Message constructed from the buffered messages
CombinedContent(bufferedMessages) ==
  Trim(Join([k \in 1..Len(bufferedMessages) |-> inbound[bufferedMessages[k]].content]
              \o <<>>,
            <<"\n", "\n">>))

\* the callback of a pending timer: triggerYapReply
TriggerYapReply(timer) ==
  /\ timer \in timeouts
  /\ timeouts' = timeouts \ {timer}
  /\ yapTimers' = [a \in DOMAIN yapTimers \ {timer.agentId} |-> yapTimers[a]]
  /\ IF timer.agentId \in DOMAIN yapTimers
        /\ yapTimers[timer.agentId].messageBuffer # <<>>
     THEN LET bufferedMessages == yapTimers[timer.agentId].messageBuffer
          IN StartTurn(timer.agentId, inbound[bufferedMessages[1]].author,
                       CombinedContent(bufferedMessages), "yap", bufferedMessages,
                       timer)
     ELSE UNCHANGED <<turns, db, sent, calls, starts>>
  /\ UNCHANGED <<config, inbound>>

\* the messages of the humans: plain, with a leading @name, naming an
\* agent, replying to an agent, and a reply with no text (a sticker)
YapMessages ==
  {[text |-> <<"h", "i">>, reference |-> 0, attachments |-> 0],
   [text |-> <<"@", "A", "l", " ", "y", "o">>, reference |-> 0, attachments |-> 0],
   [text |-> <<"b", "o", "?">>, reference |-> 0, attachments |-> 0],
   [text |-> <<"h", "i">>, reference |-> 3, attachments |-> 0],
   [text |-> <<>>, reference |-> 2, attachments |-> 0]}

\* yap_settings as /yap has left it
YapSettings == {{}, {2}, {1, 2}}

YapInit ==
  /\ allAgentsInChannel = Agents
  /\ guildSettings = [present |-> FALSE, contextWindow |-> 0, loopDepth |-> 0]
  /\ provider = [a \in 1..3 |-> "ok"]
  /\ remote = [a \in 1..3 |-> "ok"]
  /\ systemPrompt = AgentPrompts
  /\ yapSettings \in YapSettings
  /\ YapIdle
  /\ turns = <<>>
  /\ db = <<>>
  /\ sent = <<>>
  /\ calls = <<>>

YapNext ==
  \/ \E u \in Usernames, m \in YapMessages :
       MessageCreate(u, m.text, m.reference, m.attachments)
  \/ \E timer \in timeouts : TriggerYapReply(timer)

SpecYap == YapInit /\ [][YapNext]_vars

\* a step in which a pending timer of agent a expires: of the steps of
\* YapNext, those of TriggerYapReply
Expires(a) ==
  \E timer \in timeouts : timer.agentId = a /\ timeouts' = timeouts \ {timer}

\* setTimeout(..., 3000): a timer that stays pending expires
YapFairness == \A a \in 1..Len(Agents) : WF_timeouts(Expires(a))

SpecYapLive == YapInit /\ [][YapNext]_vars /\ YapFairness

(***************************************************************************)
(* messageCreate, the debouncer and the turns they start, with the         *)
(* channel's own traffic: what a turn sends appears in the channel and     *)
(* comes back to the messageCreate handler as a message of its own.        *)
(***************************************************************************)
\* a test of the author that takes a message sent through a webhook for a
\* message of a human
AuthorBotOwnOnly(m) == m.via = "channel"

\* message.author.bot of the message that an entry of sent has put in the
\* channel: true for what the client sends and for what a webhook sends
AuthorBot(m) == m.via \in {"webhook", "channel"}

\* client.on("messageCreate") for the message of entry k of sent, which has
\* not come in yet: if (message.author.bot || !message.guild) return
MessageCreateOwn(k) ==
  /\ Len(inbound) < MaxInbound
  /\ \A i \in 1..Len(inbound) : inbound[i].sent # k
  /\ LET author == IF sent[k].via = "webhook"
                   THEN allAgentsInChannel[turns[sent[k].turn].agent].name
                   ELSE <<>>
     IN IF AuthorBot(sent[k])
        THEN /\ inbound' = Append(inbound, [author |-> author,
                                            content |-> sent[k].content,
                                            original |-> sent[k].content,
                                            reference |-> 0, attachments |-> 0,
                                            sent |-> k])
             /\ UNCHANGED <<config, yapTimers, timeouts, starts, turns, db, sent, calls>>
        ELSE MessageCreate(author, sent[k].content, 0, 0)

\* one message of a human, to Al; /yap is on for Bo, whom every reply names
EchoNext ==
  \/ /\ inbound = <<>>
     /\ \E u \in Usernames : MessageCreate(u, <<"@", "A", "l", " ", "y", "o">>, 0, 0)
  \/ \E timer \in timeouts : TriggerYapReply(timer)
  \/ \E k \in 1..Len(sent) : MessageCreateOwn(k)
  \/ \E t \in 1..Len(turns) :
       \/ FetchOk(t, <<MsgOpen \o <<"b", "o">> \o MsgClose>>)
       \/ Line(t)
       \/ Done(t)
       \/ Close(t)
       \/ ScanResume(t)

EchoInit ==
  /\ YapInit
  /\ yapSettings = {2}

SpecEcho == EchoInit /\ [][EchoNext]_vars

(***************************************************************************)
(* messageCreate alone: which agent a message of a human is addressed to.  *)
(***************************************************************************)
\* the messages of YapMessages, and messages that meet two of the three
\* ways of addressing an agent, or the pattern of a name but not the name
AddrMessages ==
  YapMessages \cup
  {[text |-> <<"@", "b", "o", " ", "A", "l">>, reference |-> 0, attachments |-> 0],
   [text |-> <<"@", "A", "l", " ", "h", "i">>, reference |-> 2, attachments |-> 0],
   [text |-> <<"c", "y">>, reference |-> 0, attachments |-> 0],
   [text |-> <<"C", ".", " ", "h", "i">>, reference |-> 0, attachments |-> 0]}

AddrInit == YapInit /\ yapSettings \in {{}, {2}}

AddrNext ==
  \E u \in Usernames, m \in AddrMessages :
    MessageCreate(u, m.text, m.reference, m.attachments)

SpecAddr == AddrInit /\ [][AddrNext]_vars

(***************************************************************************)
(* splitMessage(text, maxLen), and /models, which follows up with each of  *)
(* the chunks of its message.                                              *)
(***************************************************************************)
\* text.split("\n")
RECURSIVE SplitLines(_)
SplitLines(text) ==
  LET nl == {i \in 1..Len(text) : text[i] = "\n"}
  IN IF nl = {} THEN <<text>>
     ELSE <<SubSeq(text, 1, SetMin(nl) - 1)>>
            \o SplitLines(SubSeq(text, SetMin(nl) + 1, Len(text)))

\* the for loop over lines from line k on, with chunks and buf as they are
RECURSIVE SplitLoop(_, _, _, _, _)
SplitLoop(lines, k, chunks, buf, maxLen) ==
  IF k > Len(lines) THEN IF buf # <<>> THEN Append(chunks, buf) ELSE chunks
  ELSE LET line == lines[k]
           over == Len(buf) + Len(line) + 1 > maxLen
           chunks1 == IF over THEN Append(chunks, buf) ELSE chunks
           buf1 == IF over THEN <<>> ELSE buf
       IN SplitLoop(lines, k + 1, chunks1,
                    buf1 \o (IF buf1 # <<>> THEN <<"\n">> ELSE <<>>) \o line,
                    maxLen)

SplitMessage(text, maxLen) == SplitLoop(SplitLines(text), 1, <<>>, <<>>, maxLen)

\* interaction.followUp({ content: chunks[i] }) for each chunk in turn
FollowUpChunks(text, maxLen) ==
  /\ sent = <<>>
  /\ LET chunks == SplitMessage(text, maxLen)
     IN sent' = [k \in 1..Len(chunks) |->
                  [turn |-> 0, via |-> "interaction", content |-> chunks[k],
                   text |-> text, maxLen |-> maxLen]] \o <<>>
  /\ UNCHANGED <<config, yapvars, turns, db, calls>>

\* the texts of at most MaxSplitText characters, a letter or a line break
SplitNext ==
  \E text \in UNION {[1..n -> {"a", "\n"}] : n \in 1..MaxSplitText},
     maxLen \in 1..MaxSplitLen :
    FollowUpChunks(text, maxLen)

SpecSplit == Init /\ [][SplitNext]_vars

(***************************************************************************)
(* What one invocation did.                                                *)
(***************************************************************************)
Turns == 1..Len(turns)

DbOf(t) == SelectSeq(db, LAMBDA r : r.turn = t)

AssistantOf(t) == SelectSeq(db, LAMBDA r : r.turn = t /\ r.role = "assistant")

SentOf(t) == SelectSeq(sent, LAMBDA m : m.turn = t)

WebhookOf(t) == SelectSeq(sent, LAMBDA m : m.turn = t /\ m.via = "webhook")

CallsOf(t) == SelectSeq(calls, LAMBDA c : c.turn = t)

Children(t) == {c \in Turns : turns[c].parent = t}

Contents(rs) == [k \in 1..Len(rs) |-> rs[k].content]

Terminal == {"stopped", "cfgerr", "neterr", "strerr", "done"}

RECURSIVE InSubtree(_, _)
InSubtree(t, u) ==
  \/ u = t
  \/ turns[u].parent # 0 /\ InSubtree(t, turns[u].parent)

\* t and every turn started from it, directly or not, has run to its end
Finished(t) == \A u \in Turns : InSubtree(t, u) => turns[u].pc \in Terminal

(***************************************************************************)
(* C1. An invocation of agentLoop with depth > maxLoopDepth inserts no     *)
(* record, issues no remote call (and so builds no transcript for one),    *)
(* sends nothing and starts no recursive turn.                             *)
(***************************************************************************)
C1_OverDepthTurnDoesNothing ==
  \A t \in Turns :
    turns[t].depth > turns[t].maxLoopDepth =>
      /\ turns[t].pc = "stopped"
      /\ DbOf(t) = <<>>
      /\ CallsOf(t) = <<>>
      /\ SentOf(t) = <<>>
      /\ Children(t) = {}

C1_Witness ==
  \E t \in Turns :
    /\ turns[t].depth = turns[t].maxLoopDepth + 1
    /\ turns[t].pc = "stopped"
    /\ Len(db) > 0

(***************************************************************************)
(* C2. Every recursive turn runs at its parent's depth + 1 and root turns  *)
(* at depth 0; every turn that persists a record or issues a remote call   *)
(* has depth <= the loop depth configured for the guild (the schema's      *)
(* default when the guild has no row); a turn over the ceiling reports no  *)
(* error.                                                                  *)
(***************************************************************************)
ConfiguredLoopDepth ==
  IF guildSettings.present THEN guildSettings.loopDepth ELSE DefaultLoopDepth

C2_DepthWithinConfiguredCeiling ==
  \A t \in Turns :
    /\ turns[t].depth =
         IF turns[t].parent = 0 THEN 0 ELSE turns[turns[t].parent].depth + 1
    /\ (DbOf(t) # <<>> \/ CallsOf(t) # <<>>) =>
         turns[t].depth <= ConfiguredLoopDepth
    /\ turns[t].depth > ConfiguredLoopDepth => SentOf(t) = <<>>

(***************************************************************************)
(* C3. Once the close handler of a turn of agent A at depth d has gone     *)
(* through the peers, a recursive turn for peer P at depth d + 1 was       *)
(* invoked if and only if P is not A and combinedReplyText contains P's    *)
(* name as a whole word, without regard to case.                           *)
(***************************************************************************)
\* name occurs in text, letter case aside, with no word character next to it
ContainsWholeWord(name, text) ==
  \E i \in 1..(Len(text) - Len(name) + 1) :
    /\ \A k \in 1..Len(name) : ToLower(name[k]) = ToLower(text[i + k - 1])
    /\ i = 1 \/ ~IsWordChar(text[i - 1])
    /\ i + Len(name) > Len(text) \/ ~IsWordChar(text[i + Len(name)])

C3_RecursiveTurnIffWholeWordMention ==
  \A t \in Turns :
    turns[t].pc = "done" =>
      \A j \in 1..Len(allAgentsInChannel) :
        LET P == allAgentsInChannel[j]
        IN (\E c \in Children(t) :
              turns[c].agent = P.id /\ turns[c].depth = turns[t].depth + 1)
           <=> (/\ P.id # turns[t].agent
                /\ ContainsWholeWord(P.name, turns[t].combinedReplyText))

(***************************************************************************)
(* C4. The recursive turns of one reply run one after the other: a later   *)
(* mentioned peer's turn persists nothing and issues no remote call before *)
(* the earlier peer's turn, with the turns it started, has run to its end. *)
(***************************************************************************)
C4_MentionedPeersRunSequentially ==
  \A c1 \in Turns, c2 \in Turns :
    (/\ turns[c1].parent # 0
     /\ turns[c1].parent = turns[c2].parent
     /\ c1 < c2
     /\ (DbOf(c2) # <<>> \/ CallsOf(c2) # <<>>))
    => Finished(c1)

(***************************************************************************)
(* C5. When a stream has ended, the persisted forms of its segments,       *)
(* concatenated in emission order, are the concatenated deltas with every  *)
(* complete <think>...</think> span removed.                               *)
(***************************************************************************)
C5_PersistedFormsReproduceStream ==
  \A t \in Turns :
    turns[t].ended # "no" =>
      Flatten(Contents(AssistantOf(t))) = StripThink(turns[t].consumed)

(***************************************************************************)
(* C6. No segment with blank inner text is dispatched or persisted: every  *)
(* segment of a turn is dispatched once and persisted once, its inner text *)
(* is not blank, the dispatched text starts with it and the persisted form *)
(* is a <msg tag closed by that inner text and </msg>.                     *)
(***************************************************************************)
EndsWith(s, tail) == MatchAt(s, Len(s) - Len(tail) + 1, tail)

C6_NoBlankSegment ==
  \A t \in Turns :
    LET inner == turns[t].fullRepliesContent
        out == WebhookOf(t)
        recs == AssistantOf(t)
    IN /\ Len(out) = Len(inner)
       /\ Len(recs) = Len(inner)
       /\ \A k \in 1..Len(inner) :
            /\ Trim(inner[k]) # <<>>
            /\ MatchAt(out[k].content, 1, inner[k])
            /\ Trim(out[k].content) # <<>>
            /\ MatchAt(recs[k].content, 1, MsgOpenPrefix)
            /\ EndsWith(recs[k].content, inner[k] \o MsgClose)

C6_Witness ==
  \E t \in Turns :
    /\ turns[t].ended = "eof"
    /\ turns[t].consumed = Flatten(BlankSpanStream)
    /\ turns[t].nLine = 0
    /\ AssistantOf(t) = <<>>
    /\ WebhookOf(t) = <<>>

(***************************************************************************)
(* C7. The segments of a turn are dispatched and persisted in the order    *)
(* in which their characters occur in the stream, and no character of the  *)
(* stream is emitted twice, however the stream is cut into deltas: the     *)
(* k-th persisted form is made of the stream's characters at the k-th      *)
(* emitted positions, and these positions increase from segment to         *)
(* segment.                                                                *)
(***************************************************************************)
C7_SegmentsInStreamOrderOnce ==
  \A t \in Turns :
    LET ep == turns[t].emitPos
        recs == AssistantOf(t)
        out == WebhookOf(t)
    IN /\ Len(recs) = Len(ep)
       /\ Len(out) = Len(ep)
       /\ \A k \in 1..Len(ep) :
            LET chars == Pick(turns[t].consumed, ep[k])
            IN /\ \A i \in 1..(Len(ep[k]) - 1) : ep[k][i] < ep[k][i + 1]
               /\ recs[k].content \in {chars, MsgOpen \o chars \o MsgClose}
               /\ MatchAt(out[k].content, 1, turns[t].fullRepliesContent[k])
               /\ EndsWith(recs[k].content,
                           turns[t].fullRepliesContent[k] \o MsgClose)
       /\ \A k \in 1..(Len(ep) - 1) : ep[k][Len(ep[k])] < ep[k + 1][1]

C7_Witness ==
  \E t \in Turns :
    /\ turns[t].ended # "no"
    /\ Len(turns[t].emitPos) = 2
    /\ turns[t].nLine = 2
    /\ turns[t].consumed =
         MsgOpen \o <<"b">> \o MsgClose \o <<" ">> \o MsgOpen \o <<"b">> \o MsgClose
    /\ Len(WebhookOf(t)) = 2

(***************************************************************************)
(* C8. No character lying between a <think> and its </think> in the whole  *)
(* stream is dispatched or persisted, however the stream is cut.           *)
(***************************************************************************)
\* the positions strictly inside the <think>...</think> spans of s
RECURSIVE ThinkInnerFrom(_, _)
ThinkInnerFrom(s, i) ==
  LET o == IndexFrom(s, ThinkOpen, i)
      c == IF o = 0 THEN 0 ELSE IndexFrom(s, ThinkClose, o + Len(ThinkOpen))
  IN IF c = 0 THEN {}
     ELSE ((o + Len(ThinkOpen))..(c - 1)) \cup ThinkInnerFrom(s, c + Len(ThinkClose))

C8_ThinkContentNeverEmitted ==
  \A t \in Turns :
    turns[t].ended # "no" =>
      \A k \in 1..Len(turns[t].emitPos) :
        \A i \in 1..Len(turns[t].emitPos[k]) :
          turns[t].emitPos[k][i] \notin ThinkInnerFrom(turns[t].consumed, 1)

(***************************************************************************)
(* C9. When the stream ends, by [DONE] or without it, and the buffer is    *)
(* not blank once its <think> spans are stripped, one more segment is      *)
(* emitted: delivered as that text followed by the warning, persisted as   *)
(* <msg>TEXT</msg>.                                                        *)
(***************************************************************************)
C9_LeftoverFlushedAtTermination ==
  \A t \in Turns :
    LET text == Trim(StripThink(turns[t].atEnd))
        recs == AssistantOf(t)
        out == WebhookOf(t)
    IN (turns[t].ended # "no" /\ text # <<>>) =>
         /\ Len(recs) = turns[t].nLine + 1
         /\ Len(out) = turns[t].nLine + 1
         /\ out[Len(out)].content = text \o WarningSuffix
         /\ recs[Len(recs)].content = MsgOpen \o text \o MsgClose

(***************************************************************************)
(* C10. The stream <msg>First part.</msg>, then <msg>Second part., then    *)
(* the end of the stream, delivers exactly "First part." and "Second       *)
(* part." followed by the warning.                                         *)
(***************************************************************************)
C10_FirstSecondScenario ==
  \A t \in Turns :
    (turns[t].ended # "no" /\ turns[t].consumed = Flatten(ScenarioStream)) =>
      Contents(WebhookOf(t)) = <<FirstPart, SecondPart \o WarningSuffix>>

(***************************************************************************)
(* The request of a turn and what it was built from.                       *)
(***************************************************************************)
Calls == 1..Len(calls)

\* the store when the turn of request c loaded its history: the rows up to
\* the user row the turn had just inserted
StoreAt(c) ==
  LET own == {i \in 1..Len(db) : db[i].turn = calls[c].turn /\ db[i].role = "user"}
  IN SubSeq(db, 1, SetMin(own))

RecentAt(c) == RecentMessages(StoreAt(c))

\* the rows of the history whose derived content is not blank, as derived
DerivedAt(c) ==
  LET a == calls[c].agent
      rows == SelectSeq(RecentAt(c), LAMBDA r : Trim(ContentForLLM(r, a)) # <<>>)
  IN [k \in 1..Len(rows) |->
        [role |-> RoleForLLM(rows[k], a), content |-> ContentForLLM(rows[k], a)]]

\* the entries of request c that come from the history: those after the
\* system entry and before the entry of the current message
HistoryEntries(c) ==
  LET m == calls[c].messages
      first == IF m # <<>> /\ m[1].role = "system" THEN 2 ELSE 1
      last == IF Trim(turns[calls[c].turn].content) # <<>> THEN Len(m) - 1 ELSE Len(m)
  IN SubSeq(m, first, last)

\* entries with every maximal run of one role made one entry, the contents
\* of the run joined by single newlines
RECURSIVE RunsJoined(_)
RunsJoined(es) ==
  IF es = <<>> THEN <<>>
  ELSE LET stop == {i \in 2..Len(es) : es[i].role # es[1].role}
           n == IF stop = {} THEN Len(es) ELSE SetMin(stop) - 1
       IN <<[role |-> es[1].role,
             content |-> Join([k \in 1..n |-> es[k].content], <<"\n">>)]>>
            \o RunsJoined(SubSeq(es, n + 1, Len(es)))

(***************************************************************************)
(* C11. In every request, the entries that come from the history are the   *)
(* derived entries of the history rows with every run of consecutive rows  *)
(* of one role made one entry, its contents joined by a single newline:    *)
(* three consecutive own assistant rows <msg>A</msg> give one assistant    *)
(* entry A\nA\nA, and no two adjacent history entries share a role.        *)
(***************************************************************************)
C11_AdjacentSameRoleMerged ==
  \A c \in Calls :
    LET h == HistoryEntries(c)
    IN /\ h = RunsJoined(DerivedAt(c))
       /\ \A i \in 1..(Len(h) - 1) : h[i].role # h[i + 1].role

C11_Witness ==
  \E c \in Calls :
    /\ calls[c].agent = 1
    /\ Len(RecentAt(c)) = 4
    /\ \A k \in 1..3 : /\ RecentAt(c)[k].role = "assistant"
                        /\ RecentAt(c)[k].agentId = 1
                        /\ RecentAt(c)[k].content = MsgOpen \o TextA \o MsgClose
    /\ Len(HistoryEntries(c)) = 2
    /\ HistoryEntries(c)[1] =
         [role |-> "assistant", content |-> <<"A", "\n", "A", "\n", "A">>]

(***************************************************************************)
(* C12. For every history row, the derived role is assistant for an        *)
(* assistant row of the running agent and user for every other row; the    *)
(* derived content of an own assistant row is the row's text with its one  *)
(* outer <msg ...>...</msg> wrapper removed (the trimmed text when there   *)
(* is no wrapper), and the content of every other row is the row's text.   *)
(* No entry that comes from the history has role system.                   *)
(***************************************************************************)
\* text is one <msg ...> tag, anything, and </msg> at its end
HasWrapper(text) ==
  /\ MatchAt(text, 1, MsgOpenPrefix)
  /\ EndsWith(text, MsgClose)
  /\ \E g \in (Len(MsgOpenPrefix) + 1)..(Len(text) - Len(MsgClose)) : text[g] = ">"

\* what the wrapper of text encloses
Unwrapped(text) ==
  LET g == SetMin({i \in (Len(MsgOpenPrefix) + 1)..Len(text) : text[i] = ">"})
  IN SubSeq(text, g + 1, Len(text) - Len(MsgClose))

OwnAssistant(r, a) == r.role = "assistant" /\ r.agentId = a

C12_DerivedRoleAndContent ==
  \A c \in Calls :
    LET a == calls[c].agent
    IN /\ \A k \in 1..Len(RecentAt(c)) :
            LET r == RecentAt(c)[k]
            IN /\ RoleForLLM(r, a) = IF OwnAssistant(r, a) THEN "assistant" ELSE "user"
               /\ ContentForLLM(r, a) =
                    IF ~OwnAssistant(r, a) THEN r.content
                    ELSE IF HasWrapper(r.content) THEN Unwrapped(r.content)
                    ELSE Trim(r.content)
       /\ \A i \in 1..Len(HistoryEntries(c)) : HistoryEntries(c)[i].role # "system"

(***************************************************************************)
(* C12, amended. As C12, but the derived content of an own assistant row   *)
(* with a wrapper is what the wrapper encloses, trimmed.                   *)
(***************************************************************************)
C12_DerivedRoleAndTrimmedContent ==
  \A c \in Calls :
    LET a == calls[c].agent
    IN /\ \A k \in 1..Len(RecentAt(c)) :
            LET r == RecentAt(c)[k]
            IN /\ RoleForLLM(r, a) = IF OwnAssistant(r, a) THEN "assistant" ELSE "user"
               /\ ContentForLLM(r, a) =
                    IF ~OwnAssistant(r, a) THEN r.content
                    ELSE IF HasWrapper(r.content) THEN Trim(Unwrapped(r.content))
                    ELSE Trim(r.content)
       /\ \A i \in 1..Len(HistoryEntries(c)) : HistoryEntries(c)[i].role # "system"

C12_Witness ==
  \E c \in Calls :
    /\ calls[c].agent = 1
    /\ Len(RecentAt(c)) = 4
    /\ RecentAt(c)[1].content = MsgOpen \o <<" ", "b", " ">> \o MsgClose
    /\ RecentAt(c)[2].agentId = 2 /\ RecentAt(c)[2].role = "assistant"
    /\ RecentAt(c)[3].content = <<"d">>
    /\ Contents(HistoryEntries(c)) =
         <<<<"b">>, MsgOpen \o TextA \o MsgClose, <<"d">>,
           TextContentForDB(<<"K", "i", "m">>, turns[calls[c].turn].content)>>

(***************************************************************************)
(* C13. A request has a system entry exactly when the agent's prompt or    *)
(* the formatting instructions are not empty (empty: nothing left after    *)
(* trimming). It is then the first entry and the only system entry, and    *)
(* its content is the prompt, a blank line and the instructions, or the    *)
(* one of the two that is not empty. With both empty the request has no    *)
(* system entry and starts with a user entry. The instructions are a       *)
(* constant of the program: the request is also rebuilt with empty ones.   *)
(***************************************************************************)
\* the halves that are not empty, with a blank line between them
HalvesJoined(systemPromptText, instructions) ==
  Join(SelectSeq(<<systemPromptText, instructions>>, LAMBDA h : Trim(h) # <<>>),
       <<"\n", "\n">>)

SystemEntryAsClaimed(m, systemPromptText, instructions) ==
  LET e == HalvesJoined(systemPromptText, instructions)
  IN /\ {k \in 1..Len(m) : m[k].role = "system"} = IF e = <<>> THEN {} ELSE {1}
     /\ e # <<>> => m[1].content = e

\* the request of c as it is built when the instructions are empty
WithoutInstructions(c) ==
  ChatHistoryForLLM(systemPrompt[calls[c].agent], <<>>, calls[c].agent,
                    RecentAt(c), turns[calls[c].turn].content)

C14_EndsWithCurrentUserEntry ==
  \A c \in Calls :
    LET m == calls[c].messages
        a == calls[c].agent
    IN /\ m # <<>>
       /\ m[Len(m)] = [role |-> "user", content |-> turns[calls[c].turn].content]
       /\ SubSeq(m, 1, Len(m) - 1) =
            SystemEntries(HalvesJoined(systemPrompt[a], MULTI_MSG_INSTRUCTIONS))
              \o RunsJoined(DerivedAt(c))

(***************************************************************************)
(* What the debouncer did for one agent.                                   *)
(***************************************************************************)
\* the calls of agentLoop that triggerYapReply made for agent a, in order
YapStarts(a) == SelectSeq(starts, LAMBDA s : s.via = "yap" /\ s.agent = a)

\* the messages buffered for agent a
Held(a) == IF a \in DOMAIN yapTimers THEN yapTimers[a].messageBuffer ELSE <<>>

\* the texts as they arrived, joined by blank lines
OriginalsJoined(msgs) ==
  Join([k \in 1..Len(msgs) |-> inbound[msgs[k]].original] \o <<>>, <<"\n", "\n">>)

(***************************************************************************)
(* C15. For an agent with yap enabled, the messages of the channel fall    *)
(* into bursts: a burst ends when the timer set by its last message        *)
(* expires. Every ended burst has given exactly one call of agentLoop, at  *)
(* depth 0, made by the expiry of the timer of its last message, and the   *)
(* text of that call is the texts of the burst as they arrived, in order,  *)
(* joined by blank lines; the burst still open is in the buffer and its    *)
(* last message's timer is the one pending.                                *)
(***************************************************************************)
C15_BurstGivesOneCoalescedTurn ==
  \A a \in yapSettings :
    LET ys == YapStarts(a)
    IN /\ Flatten([k \in 1..Len(ys) |-> ys[k].msgs] \o <<>>) \o Held(a)
            = [i \in 1..Len(inbound) |-> i]
       /\ {x \in timeouts : x.agentId = a}
            = IF Held(a) = <<>> THEN {} ELSE {TimerId(Held(a)[Len(Held(a))], a)}
       /\ \A k \in 1..Len(ys) :
            /\ ys[k].msgs # <<>>
            /\ ys[k].timer = TimerId(ys[k].msgs[Len(ys[k].msgs)], a)
            /\ turns[ys[k].turn].depth = 0
            /\ turns[ys[k].turn].content = OriginalsJoined(ys[k].msgs)

(***************************************************************************)
(* C16. When a message arrives while the timer of an agent with yap        *)
(* enabled is pending, that timer is cleared and a new one is set, the     *)
(* only one then pending for the agent; the agent's buffer is the old one  *)
(* with that message appended; the step starts no turn of the agent. A     *)
(* call of agentLoop by the debouncer is only ever made by a timer that    *)
(* is pending, so a cleared timer starts none.                             *)
(***************************************************************************)
C16_ArrivalRestartsTimer ==
  [][/\ \A a \in yapSettings :
          (Len(inbound') = Len(inbound) + 1 /\ \E x \in timeouts : x.agentId = a) =>
            /\ \A x \in timeouts : x.agentId = a => x \notin timeouts'
            /\ {x \in timeouts' : x.agentId = a} = {TimerId(Len(inbound'), a)}
            /\ a \in DOMAIN yapTimers /\ a \in DOMAIN yapTimers'
            /\ yapTimers'[a].messageBuffer =
                 Append(yapTimers[a].messageBuffer, Len(inbound'))
            /\ \A k \in (Len(starts) + 1)..Len(starts') : starts'[k].agent # a
      /\ \A k \in (Len(starts) + 1)..Len(starts') :
           starts'[k].via = "yap" =>
             starts'[k].timer \in timeouts /\ starts'[k].timer \notin timeouts'
    ]_vars

C16_Witness ==
  \E a \in yapSettings :
    /\ Len(YapStarts(a)) = 1
    /\ YapStarts(a)[1].msgs = <<1, 2, 3>>
    /\ YapStarts(a)[1].timer = TimerId(3, a)
    /\ timeouts = {}

(***************************************************************************)
(* C17. For every message received and every agent, at most one call of    *)
(* agentLoop was made for that agent on account of that message, and for   *)
(* an agent with yap enabled it is never the direct one: the reply, the    *)
(* leading @name and the name in the text start nothing for that agent.    *)
(***************************************************************************)
\* the depth 0 calls made for agent a on account of message i
StartsOn(i, a) ==
  {k \in 1..Len(starts) :
     starts[k].agent = a /\ \E j \in 1..Len(starts[k].msgs) : starts[k].msgs[j] = i}

C17_OneTurnPerMessageAndAgent ==
  \A i \in 1..Len(inbound), n \in 1..Len(allAgentsInChannel) :
    LET a == allAgentsInChannel[n].id
    IN /\ Cardinality(StartsOn(i, a)) <= 1
       /\ a \in yapSettings => \A k \in StartsOn(i, a) : starts[k].via = "yap"

C17_Witness ==
  \E i \in 1..Len(inbound) :
    /\ inbound[i].original = <<"b", "o", "?">>
    /\ Addressed(allAgentsInChannel, inbound[i].original, 0).agent = 2
    /\ 2 \in yapSettings
    /\ \E k \in StartsOn(i, 2) : starts[k].via = "yap"

(***************************************************************************)
(* C18. A turn that passes the depth check and whose agent's provider is   *)
(* not found, or has a key that does not decrypt, sends exactly one        *)
(* message, the configuration error, to the channel, and is over: it       *)
(* issues no fetch, inserts no assistant row, sends nothing through the    *)
(* webhook and starts no turn, at that point and ever after.               *)
(***************************************************************************)
C18_ConfigErrorEndsTurn ==
  \A t \in Turns :
    (turns[t].pc # "stopped" /\ provider[turns[t].agent] \in {"missing", "badkey"}) =>
      /\ turns[t].pc = "cfgerr"
      /\ Contents(SentOf(t)) =
           <<IF provider[turns[t].agent] = "missing"
             THEN ConfigErrorNotFound ELSE ConfigErrorKey>>
      /\ SentOf(t)[1].via = "channel"
      /\ CallsOf(t) = <<>>
      /\ AssistantOf(t) = <<>>
      /\ Children(t) = {}

C18_Witness ==
  \E t \in Turns :
    /\ provider[turns[t].agent] = "missing"
    /\ turns[t].pc = "cfgerr"
    /\ turns[t].parent # 0
    /\ Len(SentOf(t)) = 1
    /\ Finished(turns[t].parent)

(***************************************************************************)
(* C19. A turn whose fetch is rejected, or answered with a status that is  *)
(* not ok or with no body, sends exactly one message, the provider error,  *)
(* to the channel, with at most the first 500 characters of the error      *)
(* body, and is over: it dispatches no segment, inserts no assistant row,  *)
(* starts no turn and issues no second fetch.                              *)
(***************************************************************************)
C19_ProviderErrorEndsTurn ==
  \A t \in Turns :
    LET kind == remote[turns[t].agent]
        body == turns[t].errorBody
        details == IF Len(body) <= 500 THEN body ELSE SubSeq(body, 1, 500)
    IN (kind # "ok" /\ CallsOf(t) # <<>> /\ turns[t].pc # "fetching") =>
         /\ turns[t].pc = "neterr"
         /\ Len(SentOf(t)) = 1
         /\ SentOf(t)[1].via = "channel"
         /\ SentOf(t)[1].content =
              CASE kind = "network" -> ErrorContacting
                [] kind = "status" -> ProviderReturnedError \o details
                [] OTHER -> EmptyResponse
         /\ Len(SentOf(t)[1].content) <= Len(ProviderReturnedError) + 500
         /\ Len(CallsOf(t)) = 1
         /\ AssistantOf(t) = <<>>
         /\ Children(t) = {}

C19_Witness ==
  \E t \in Turns :
    /\ remote[turns[t].agent] = "status"
    /\ turns[t].pc = "neterr"
    /\ Len(turns[t].errorBody) = 501
    /\ Len(SentOf(t)) = 1
    /\ turns[t].parent # 0
    /\ Finished(turns[t].parent)

(***************************************************************************)
(* C20. A line whose payload does not parse is dropped without effect.     *)
(* At every point of a stream, the buffer, the segments delivered, the     *)
(* rows stored and the replies collected are those that the well-formed    *)
(* chunks handled so far give by themselves, wherever malformed lines      *)
(* came between them, and so is what the end of the stream adds; nothing   *)
(* is sent to the channel. Malformed: JSON.parse or the access to the      *)
(* delta throws; a chunk without content is a well-formed empty delta.     *)
(***************************************************************************)
\* the line handler run over deltas alone, from an empty buffer
RECURSIVE Replayed(_)
Replayed(deltas) ==
  IF deltas = <<>> THEN [buffer |-> <<>>, bufPos |-> <<>>, segs |-> <<>>]
  ELSE LET before == Replayed(SubSeq(deltas, 1, Len(deltas) - 1))
           r == LineStep(before.buffer, before.bufPos, deltas[Len(deltas)], 0)
       IN [buffer |-> r.buffer, bufPos |-> r.bufPos, segs |-> before.segs \o r.segs]

C20_MalformedLineDropped ==
  \A t \in Turns :
    turns[t].pc \in {"streaming", "done"} =>
      LET T == turns[t]
          rep == Replayed(T.fed)
          fl == CASE T.ended = "eof" -> Flush(rep.buffer, rep.bufPos)
                  [] OTHER -> <<>>
          segs == rep.segs \o fl
      IN /\ T.ended = "no" => T.streamBuffer = rep.buffer
         /\ T.ended # "no" => T.atEnd = rep.buffer
         /\ Contents(SentOf(t)) = [k \in 1..Len(segs) |-> segs[k].deliver]
         /\ \A k \in 1..Len(SentOf(t)) : SentOf(t)[k].via = "webhook"
         /\ Contents(AssistantOf(t)) = [k \in 1..Len(segs) |-> segs[k].full]
         /\ T.fullRepliesContent = [k \in 1..Len(segs) |-> segs[k].inner]

\* a malformed line came between the two deltas of a segment, and the
\* segment was delivered
C20_Witness ==
  \E t \in Turns :
    /\ Len(turns[t].badAt) = 1
    /\ turns[t].ended = "eof"
    /\ Len(WebhookOf(t)) = 1
    /\ \E i, j \in 1..Len(turns[t].emitPos[1]) :
         /\ turns[t].emitPos[1][i] <= turns[t].badAt[1]
         /\ turns[t].emitPos[1][j] > turns[t].badAt[1]

(***************************************************************************)
(* C21. When the stream of a turn fails while it is read, an error message *)
(* is sent to the channel and the branch ends there: after the error the   *)
(* turn dispatches and persists no further segment, starts no mention scan *)
(* and no recursive turn, and does not fetch again.                        *)
(***************************************************************************)
C21_StreamErrorEndsBranch ==
  \A t \in Turns :
    turns[t].atError # <<>> =>
      /\ turns[t].pc = "strerr"
      /\ Footprint(t) = turns[t].atError[1]
      /\ Len(CallsOf(t)) = 1
      /\ Len(SelectSeq(SentOf(t), LAMBDA m : m.via = "channel")) = 1
      /\ \E k \in 1..Len(sent) :
           sent[k] = [turn |-> t, via |-> "channel",
                      content |-> StreamErrorMessage(
                                    allAgentsInChannel[turns[t].agent].name)]

\* a stream failed with a delta still to come, after a reply that names a
\* peer was sent: the peer is not invoked
C21_Witness ==
  \E t \in Turns :
    /\ turns[t].atError # <<>>
    /\ turns[t].deltas # <<>>
    /\ turns[t].depth < turns[t].maxLoopDepth
    /\ NextMention(turns[t].agent, Join(turns[t].fullRepliesContent, <<" ">>), 1) # 0
    /\ Children(t) = {}
    /\ \E u \in Turns : u # t /\ turns[u].pc = "done"


(***************************************************************************)
(* C22. A webhook send that is rejected is not repeated and does not stop  *)
(* the turn: the segment's persisted form is inserted as an assistant row, *)
(* its text is part of combinedReplyText, and every later segment of the   *)
(* stream is sent and inserted: what a turn with rejected sends has sent,  *)
(* inserted and collected is what its deltas give without any rejection,   *)
(* and it ends with no delta unread.                                       *)
(***************************************************************************)
C22_RejectedSendStopsNothing ==
  \A t \in Turns :
    turns[t].rejected # {} =>
      LET T == turns[t]
          rep == Replayed(T.fed)
          fl == CASE T.ended = "eof" -> Flush(rep.buffer, rep.bufPos)
                  [] OTHER -> <<>>
          segs == rep.segs \o fl
      IN /\ \A k \in T.rejected : sent[k].turn = t /\ sent[k].via = "webhook"
         /\ Contents(WebhookOf(t)) = [k \in 1..Len(segs) |-> segs[k].deliver]
         /\ Contents(AssistantOf(t)) = [k \in 1..Len(segs) |-> segs[k].full]
         /\ T.fullRepliesContent = [k \in 1..Len(segs) |-> segs[k].inner]
         /\ T.ended = "no" => T.pc = "streaming" /\ T.streamBuffer = rep.buffer
         /\ T.ended # "no" =>
              /\ T.deltas = <<>>
              /\ T.atEnd = rep.buffer
              /\ T.combinedReplyText = Join(T.fullRepliesContent, <<" ">>)

\* the send of the first segment was rejected while the stream was read;
\* the second segment and the leftover were sent and inserted after it
C22_Witness ==
  \E t \in Turns :
    /\ turns[t].pc = "done"
    /\ turns[t].ended = "eof"
    /\ Len(turns[t].fed) = 2
    /\ Len(WebhookOf(t)) >= 2
    /\ Len(AssistantOf(t)) = Len(WebhookOf(t))
    /\ \E k \in turns[t].rejected :
         /\ sent[k] = WebhookOf(t)[1]
         /\ Len(turns[t].emitPos[1]) < Len(turns[t].fed[1])

(***************************************************************************)
(* C23. The orchestrator only appends to the store of messages: no step of *)
(* any turn, root or recursive, alone or beside others, updates or deletes *)
(* a row, so the store after a step is the store before it followed by the *)
(* rows the step inserted.                                                 *)
(***************************************************************************)
C23_StoreOnlyGrows ==
  [][/\ Len(db') >= Len(db)
     /\ SubSeq(db', 1, Len(db)) = db]_vars

\* the rows of two turns lie between one another: one turn inserted a
\* segment while the stream of another was still being read
C23_Witness ==
  \E i, j, k \in 1..Len(db) :
    /\ i < j /\ j < k
    /\ db[i].turn = db[k].turn
    /\ db[j].turn # db[i].turn
    /\ db[j].role = "assistant"
    /\ db[k].role = "assistant"

(***************************************************************************)
(* C24. In a guild whose loop depth was set to N by /loopdepth, N >= 0, at *)
(* most N agent-to-agent reply turns are run for one human message: of the *)
(* turns started, directly or not, from the turn of a human message, at    *)
(* most N pass the depth check.                                            *)
(***************************************************************************)
\* the agent-to-agent reply turns run for the human message of root turn r
ReplyTurns(r) ==
  {u \in Turns : /\ u # r
                 /\ InSubtree(r, u)
                 /\ turns[u].pc # "stopped"}

C24_AtMostNReplyTurns ==
  guildSettings.present =>
    \A r \in Roots : Cardinality(ReplyTurns(r)) <= guildSettings.loopDepth

(***************************************************************************)
(* C25. For a history, oldest first, of a user row U, a row X of the       *)
(* agent's own replies, a row P of a peer's replies and two more rows Y1,  *)
(* Y2 of the agent's own replies, the transcript has five entries: the     *)
(* system entry, a user entry with U's content, one assistant entry with   *)
(* the stripped texts of X, Y1 and Y2 joined by newlines, a user entry     *)
(* with P's content, and the user entry of the current message.            *)
(***************************************************************************)
\* history h has the shape U, X, P, Y1, Y2 for agent a
FormatScenario(h, a) ==
  /\ Len(h) = 5
  /\ h[1].role = "user"
  /\ OwnAssistant(h[2], a)
  /\ h[3].role = "assistant" /\ h[3].agentId # a
  /\ OwnAssistant(h[4], a)
  /\ OwnAssistant(h[5], a)

C25_OwnRepliesMergedAcrossPeer ==
  \A c \in Calls :
    LET a == calls[c].agent
        m == calls[c].messages
    IN (FormatScenario(db, a) /\ m[Len(m)].content = <<"h", "i">>) =>
         /\ Len(m) = 5
         /\ m[1].role = "system"
         /\ m[2] = [role |-> "user", content |-> db[1].content]
         /\ m[3] = [role |-> "assistant",
                    content |-> Join(<<StripMsgTagsForOwnAssistant(db[2].content),
                                       StripMsgTagsForOwnAssistant(db[4].content),
                                       StripMsgTagsForOwnAssistant(db[5].content)>>,
                                     <<"\n">>)]
         /\ m[4] = [role |-> "user", content |-> db[3].content]
         /\ m[5] = [role |-> "user", content |-> <<"h", "i">>]

(***************************************************************************)
(* C26. Each message of a human starts a direct turn for at most one agent *)
(* of its channel: the agent whose message it replies to, else the agent   *)
(* named by a leading @AgentName, else the first agent whose name occurs   *)
(* as a whole word in the text; when none of the three gives an agent, no  *)
(* direct turn starts.                                                     *)
(***************************************************************************)
\* text begins with "@" and name, and the name ends there
HasNamePrefix(text, name) ==
  /\ Len(text) >= Len(name) + 1
  /\ text[1] = "@"
  /\ SameNameIgnoringCase(SubSeq(text, 2, Len(name) + 1), name)
  /\ Len(text) = Len(name) + 1 \/ ~IsWordChar(text[Len(name) + 2])

\* the agent the three rules give for inbound message i; 0: none
ChosenAsClaimed(i) ==
  LET m == inbound[i]
      at == 1..Len(allAgentsInChannel)
      first(S) == IF S = {} THEN 0 ELSE allAgentsInChannel[SetMin(S)].id
      byReply == first({k \in at : allAgentsInChannel[k].id = m.reference})
      byPrefix == first({k \in at : HasNamePrefix(m.original, allAgentsInChannel[k].name)})
      byName == first({k \in at : ContainsWholeWord(allAgentsInChannel[k].name, m.original)})
  IN IF byReply # 0 THEN byReply ELSE IF byPrefix # 0 THEN byPrefix ELSE byName

\* the direct turns started for inbound message i
DirectStarts(i) ==
  {s \in 1..Len(starts) : starts[s].via = "direct" /\ starts[s].msgs = <<i>>}

C26_DirectTurnForChosenAgentOnly ==
  \A i \in 1..Len(inbound) :
    /\ Cardinality(DirectStarts(i)) <= 1
    /\ \A s \in DirectStarts(i) : starts[s].agent = ChosenAsClaimed(i)

(***************************************************************************)
(* C27. Every chunk of splitMessage(text, maxLen), maxLen >= 1, is at most *)
(* maxLen characters long, also when a line of the text is longer than     *)
(* maxLen, and a chunk is empty only if a line of the text is empty.       *)
(***************************************************************************)
C27_ChunksWithinMaxLen ==
  \A k \in 1..Len(sent) :
    sent[k].via = "interaction" =>
      /\ Len(sent[k].content) <= sent[k].maxLen
      /\ sent[k].content = <<>> =>
           \E i \in 1..Len(SplitLines(sent[k].text)) :
             SplitLines(sent[k].text)[i] = <<>>

(***************************************************************************)
(* C28. In every turn that passes the depth check the record of the input  *)
(* event (role user, owner the running agent, content <msg from="AUTHOR">  *)
(* TEXT</msg>) is inserted before the history is loaded and before the     *)
(* provider is resolved: it is the turn's first row, the history of the    *)
(* turn's request ends with it, and it stays in the store when the turn    *)
(* ends with a configuration or transport error.                           *)
(***************************************************************************)
\* the record of the input event of turn t, its text as given or trimmed
InputRecord(t, text) ==
  [agentId |-> turns[t].agent, role |-> "user",
   content |-> <<"<", "m", "s", "g", " ", "f", "r", "o", "m", "=", "\"">>
                 \o turns[t].authorName \o <<"\"", ">">> \o text \o MsgClose,
   author |-> turns[t].authorName, turn |-> t]

\* the record of turn t is rec, it came before all else of the turn, and
\* the history part of the turn's request ends with it
InsertedFirst(t, rec) ==
  /\ DbOf(t) # <<>>
  /\ DbOf(t)[1] = rec
  /\ \A k \in 2..Len(DbOf(t)) : DbOf(t)[k].role = "assistant"
  /\ \A c \in Calls :
       calls[c].turn = t =>
         LET h == HistoryEntries(c)
         IN /\ h # <<>>
            /\ h[Len(h)].role = "user"
            /\ EndsWith(h[Len(h)].content, rec.content)

PendingFor(a) == {tm \in timeouts : tm.agentId = a}

C29_OneTimerPerEntry ==
  /\ \A a \in 1..Len(allAgentsInChannel) :
       /\ Cardinality(PendingFor(a)) <= 1
       /\ a \in DOMAIN yapTimers <=> Cardinality(PendingFor(a)) = 1
  /\ \A a \in DOMAIN yapTimers :
       /\ yapTimers[a].messageBuffer # <<>>
       /\ PendingFor(a) = {yapTimers[a].timerId}
  /\ \A s \in 1..Len(starts) :
       starts[s].via = "yap" =>
         /\ starts[s].timer \notin timeouts
         /\ \A r \in 1..Len(starts) :
              (starts[r].via = "yap" /\ starts[r].timer = starts[s].timer) => r = s

\* a timer expired with two messages buffered and started a turn, and the
\* next message made a new entry with a new timer for the same key
C29_Witness ==
  \E s \in 1..Len(starts) :
    /\ starts[s].via = "yap"
    /\ Len(starts[s].msgs) = 2
    /\ starts[s].agent \in DOMAIN yapTimers
    /\ Cardinality(PendingFor(starts[s].agent)) = 1
    /\ Cardinality(timeouts) = 2

(***************************************************************************)
(* C30. Once the messages for a key stop arriving its timer expires and a  *)
(* coalesced turn is triggered, and every message buffered for a key is    *)
(* part of exactly one coalesced input: at any time it is either in the    *)
(* key's buffer or in the messages of one turn the key's timers started,   *)
(* never in both and never twice; and from some time on, when no more      *)
(* messages arrive, no timer is pending and every message is part of one   *)
(* coalesced input. This holds for messages that arrive while a turn       *)
(* triggered for the same key is still running.                            *)
(***************************************************************************)
\* how often x occurs in sequence q
Occurrences(q, x) == Cardinality({k \in 1..Len(q) : q[k] = x})

\* how often message i is part of a coalesced input of agent a
TimesDelivered(a, i) ==
  LET ys == SelectSeq(starts, LAMBDA r : r.via = "yap" /\ r.agent = a)
  IN Cardinality({<<s, k>> \in (1..Len(ys)) \X (1..MaxInbound) :
                    k <= Len(ys[s].msgs) /\ ys[s].msgs[k] = i})

TimesBuffered(a, i) ==
  IF a \in DOMAIN yapTimers THEN Occurrences(yapTimers[a].messageBuffer, i) ELSE 0

C30_EveryBufferedMessageDeliveredOnce ==
  /\ [](\A a \in yapSettings, i \in 1..Len(inbound) :
          TimesBuffered(a, i) + TimesDelivered(a, i) = 1)
  /\ <>[](/\ timeouts = {}
          /\ \A a \in yapSettings, i \in 1..Len(inbound) :
               TimesDelivered(a, i) = 1 /\ TimesBuffered(a, i) = 0)

\* two timers of one key have expired; the turn of the first was still
\* fetching when the second started its own, and each of the three
\* messages is part of one of the two coalesced inputs
C30_Witness ==
  \E a \in yapSettings :
    \E s1, s2 \in 1..Len(starts) :
      /\ s1 < s2
      /\ starts[s1].via = "yap" /\ starts[s1].agent = a
      /\ starts[s2].via = "yap" /\ starts[s2].agent = a
      /\ turns[starts[s1].turn].pc = "fetching"
      /\ Len(starts[s1].msgs) + Len(starts[s2].msgs) = MaxInbound
      /\ Len(inbound) = MaxInbound
      /\ \A i \in 1..MaxInbound : TimesDelivered(a, i) = 1

(***************************************************************************)
(* C31. Turns of one agent are not mutually excluded. Whatever other turns *)
(* insert in between, the assistant records of one turn are those of its   *)
(* agent and lie in the store in the order of the turn's stream: the k-th  *)
(* of them closes with the inner text of the turn's k-th segment, and the  *)
(* segments' positions in the stream increase. The witness is a store in   *)
(* which a second turn of an agent has put its record between two          *)
(* assistant records of an earlier turn of that agent, which was streaming *)
(* when the second turn started.                                           *)
(***************************************************************************)
\* the indices of the rows of the store that turn t inserted as assistant
AssistantRowsOf(t) == {i \in 1..Len(db) : db[i].turn = t /\ db[i].role = "assistant"}

C31_OwnRecordsInStreamOrder ==
  \A t \in Turns :
    LET rows == AssistantRowsOf(t)
        inner == turns[t].fullRepliesContent
        ep == turns[t].emitPos
    IN /\ Cardinality(rows) = Len(inner)
       /\ Len(ep) = Len(inner)
       /\ \A i \in rows :
            LET k == Cardinality({j \in rows : j <= i})
            IN /\ db[i].agentId = turns[t].agent
               /\ EndsWith(db[i].content, inner[k] \o MsgClose)
               /\ Pick(turns[t].consumed, ep[k]) \in
                    {db[i].content,
                     SubSeq(db[i].content, Len(MsgOpen) + 1,
                            Len(db[i].content) - Len(MsgClose))}
       /\ \A k \in 1..(Len(ep) - 1) : ep[k][Len(ep[k])] < ep[k + 1][1]

C31_Witness ==
  \E t \in Turns, u \in Turns :
    /\ t < u
    /\ turns[t].agent = turns[u].agent
    /\ turns[u].pc = "fetching"
    /\ \E i \in AssistantRowsOf(t), k \in AssistantRowsOf(t), j \in 1..Len(db) :
         /\ i < j
         /\ j < k
         /\ db[j].turn = u
         /\ db[j].agentId = db[i].agentId
         /\ db[i].content # db[k].content

(***************************************************************************)
(* C32. A configuration or transport error in the recursive turn of one    *)
(* mentioned peer has no effect on the other branches: the scan of the     *)
(* parent's "close" handler invokes agentLoop for every mentioned peer up  *)
(* to the peer it has come to, and for all of them once it is through,     *)
(* whether or not the turns invoked before have failed; and a step in      *)
(* which a turn ends with such an error changes nothing of any other turn  *)
(* but, when the failing turn is invoked in that step, its parent's place  *)
(* in the scan.                                                            *)
(***************************************************************************)
Failed(u) == turns[u].pc \in {"cfgerr", "neterr"}

\* the peers the scan of turn t has passed: all when it is through
Scanned(t) ==
  IF turns[t].pc = "done" THEN 1..Len(allAgentsInChannel)
  ELSE IF turns[t].pc = "scan" THEN 1..turns[t].scanIdx
  ELSE {}

ScanInvokesEveryMentionedPeer ==
  \A t \in Turns : \A j \in Scanned(t) :
    (/\ allAgentsInChannel[j].id # turns[t].agent
     /\ MentionTest(allAgentsInChannel[j].name, turns[t].combinedReplyText))
    => \E c \in Children(t) :
         /\ turns[c].agent = allAgentsInChannel[j].id
         /\ turns[c].depth = turns[t].depth + 1

FailureTouchesNoOtherTurn ==
  \A u \in 1..Len(turns') :
    (/\ turns'[u].pc \in {"cfgerr", "neterr"}
     /\ (u > Len(turns) \/ turns[u].pc # turns'[u].pc))
    => /\ \A v \in 1..Len(turns) :
            (v # u /\ (u <= Len(turns) \/ v # turns'[u].parent))
            => turns'[v] = turns[v]
       /\ Len(db') >= Len(db)
       /\ SubSeq(db', 1, Len(db)) = db
       /\ SubSeq(sent', 1, Len(sent)) = sent
       /\ calls' = calls

C32_PeerErrorLeavesOtherBranches ==
  []ScanInvokesEveryMentionedPeer /\ [][FailureTouchesNoOtherTurn]_vars

\* a reply that mentioned two peers: the turn of the first has failed, the
\* turn of the second was invoked after that and has streamed to its end
C32_Witness ==
  \E t \in Turns : \E c1 \in Children(t), c2 \in Children(t) :
    /\ turns[t].pc = "done"
    /\ c1 < c2
    /\ Failed(c1)
    /\ turns[c2].ended # "no"
    /\ AssistantOf(c2) # <<>>

(***************************************************************************)
(* C33. The mention scan comes after the stream: a turn that has invoked   *)
(* a recursive turn has seen its stream end, and each of its segments was  *)
(* persisted before the first record of any turn it invoked. Its           *)
(* combinedReplyText is made of the inner texts of its segments, which are *)
(* the texts dispatched (the flush segment's without the warning suffix),  *)
(* in the order of emission with one space between two of them; and every  *)
(* recursive turn is invoked with exactly this text, the replying agent's  *)
(* name as author and the replying agent's id as originating agent id.     *)
(***************************************************************************)
RECURSIVE SpaceSeparated(_)
SpaceSeparated(texts) ==
  IF texts = <<>> THEN <<>>
  ELSE IF Len(texts) = 1 THEN texts[1]
  ELSE texts[1] \o <<" ">> \o SpaceSeparated(Tail(texts))

\* the text of the k-th segment turn t dispatched
SegmentText(t, k) ==
  LET out == WebhookOf(t)[k].content
  IN IF EndsWith(out, WarningSuffix)
     THEN SubSeq(out, 1, Len(out) - Len(WarningSuffix))
     ELSE out

C33_ScanAfterStreamWithCombinedReply ==
  \A t \in Turns :
    /\ turns[t].pc \in {"scan", "done"} =>
         /\ turns[t].ended # "no"
         /\ Len(AssistantOf(t)) = Len(WebhookOf(t))
         /\ turns[t].combinedReplyText =
              SpaceSeparated([k \in 1..Len(WebhookOf(t)) |-> SegmentText(t, k)])
    /\ \A c \in Children(t) :
         /\ turns[t].pc \in {"scan", "done"}
         /\ turns[c].content = turns[t].combinedReplyText
         /\ turns[c].authorName = allAgentsInChannel[turns[t].agent].name
         /\ turns[c].agentId = turns[t].agent
         /\ turns[c].depth = turns[t].depth + 1
         /\ \A i \in 1..Len(db), j \in 1..Len(db) :
              (db[i].turn = t /\ db[j].turn = c) => i < j

\* a reply of two segments, the second one flushed, has invoked a turn
C33_Witness ==
  \E t \in Turns : \E c \in Children(t) :
    /\ Len(turns[t].fullRepliesContent) = 2
    /\ turns[t].ended = "eof"
    /\ EndsWith(WebhookOf(t)[2].content, WarningSuffix)
    /\ turns[c].content = <<"A", "l", " ">> \o MsgOpen \o <<"B", "o", " ", "c", "y">>
    /\ DbOf(c) # <<>>

(***************************************************************************)
(* C34. A history record whose derived content is empty after trimming     *)
(* contributes nothing to the transcript: the transcript is the one built  *)
(* from the history without such records, so that no entry stands for the  *)
(* record, no newline is added for it, and the rows on either side of it   *)
(* are merged when their roles agree. No entry that comes from the history *)
(* has blank content.                                                      *)
(***************************************************************************)
\* the derived content of row r for agent a is empty after trimming
BlankDerived(r, a) ==
  Trim(IF OwnAssistant(r, a) /\ HasWrapper(r.content)
       THEN Unwrapped(r.content)
       ELSE r.content) = <<>>

C34_BlankRecordsContributeNothing ==
  \A c \in Calls :
    LET a == calls[c].agent
        m == calls[c].messages
        kept == SelectSeq(db, LAMBDA r : ~BlankDerived(r, a))
    IN /\ \E x \in TrTexts :
            m = ChatHistoryForLLM(systemPrompt[a], MULTI_MSG_INSTRUCTIONS, a, kept, x)
       /\ \A i \in 1..Len(m) : m[i].role # "system" => Trim(m[i].content) # <<>>

\* Al's replies A, blank, A, in a row: one entry A\nA
C34_Witness ==
  \E c \in Calls :
    /\ calls[c].agent = 1
    /\ \E k \in 2..(Len(db) - 2) :
         /\ db[k].content = MsgOpen \o TextA \o MsgClose /\ OwnAssistant(db[k], 1)
         /\ BlankDerived(db[k + 1], 1)
         /\ db[k + 2] = db[k]
         /\ \E i \in 1..Len(calls[c].messages) :
              /\ calls[c].messages[i].role = "assistant"
              /\ MatchAt(calls[c].messages[i].content, 1, <<"A", "\n", "A">>)

(***************************************************************************)
(* C35. The transcript keeps the order of the history. Of the rows loaded, *)
(* taken oldest first, those whose derived content is not blank have their *)
(* derived contents in the history entries of the request one after the    *)
(* other: each begins after the one before it has ended, in the same       *)
(* entry or in a later one. Every history entry comes before the entry of  *)
(* the current message, which is the last one.                             *)
(***************************************************************************)
\* the newest 2 * contextWindow rows of the store at request c, oldest first
ChronologicalAt(c) ==
  LET s == StoreAt(c)
      n == 2 * ContextWindowOf(guildSettings)
  IN IF Len(s) <= n THEN s ELSE SubSeq(s, Len(s) - n + 1, Len(s))

\* their derived contents that are not blank, oldest first
DerivedContents(c) ==
  LET a == calls[c].agent
      rows == SelectSeq(ChronologicalAt(c), LAMBDA r : ~BlankDerived(r, a))
  IN [k \in 1..Len(rows) |-> ContentForLLM(rows[k], a)]

\* the texts ds occur in this order, without overlap, in the contents of
\* the entries es, from character o of entry e on
RECURSIVE InOrderFrom(_, _, _, _)
InOrderFrom(es, e, o, ds) ==
  IF ds = <<>> THEN TRUE
  ELSE IF e > Len(es) THEN FALSE
  ELSE LET hits == {i \in o..Len(es[e].content) : MatchAt(es[e].content, i, ds[1])}
       IN IF hits = {} THEN InOrderFrom(es, e + 1, 1, ds)
          ELSE InOrderFrom(es, e, SetMin(hits) + Len(ds[1]), Tail(ds))

Occurs(lit, s) == \E i \in 1..Len(s) : MatchAt(s, i, lit)

C36_AssistantRecordsAreWrappedUnits ==
  \A t \in Turns :
    LET recs == AssistantOf(t)
        ep == turns[t].emitPos
    IN /\ Len(recs) = Len(ep)
       /\ \A k \in 1..Len(recs) :
            LET content == recs[k].content
                chars == Pick(turns[t].consumed, ep[k])
            IN /\ recs[k].agentId = turns[t].agent
               /\ HasWrapper(content)
               /\ Trim(Unwrapped(content)) # <<>>
               /\ ~Occurs(WarningSuffix, content)
               /\ IF k <= turns[t].nLine
                  THEN /\ content = chars
                       /\ IndexFrom(content, MsgClose, 1)
                            = Len(content) - Len(MsgClose) + 1
                  ELSE /\ content = MsgOpen \o chars \o MsgClose
                       /\ chars = Trim(chars)
                       /\ k = Len(recs)
                       /\ turns[t].ended = "eof"

\* a matched tag and a flushed leftover, which was sent with the warning
C36_Witness ==
  \E t \in Turns :
    /\ turns[t].ended = "eof"
    /\ Contents(AssistantOf(t)) =
         <<MsgOpen \o <<"b">> \o MsgClose, MsgOpen \o <<"a">> \o MsgClose>>
    /\ turns[t].nLine = 1
    /\ WebhookOf(t)[2].content = <<"a">> \o WarningSuffix

(***************************************************************************)
(* C37. The recursion started by a root event terminates. Its tree is      *)
(* finite: an invocation that passes the depth check has a depth of at     *)
(* most the ceiling, so the turns fill at most ceiling + 1 levels, and an  *)
(* invocation one level below returns at once; a turn invokes at most one  *)
(* turn for each of the other agents of the channel. When every fetch is   *)
(* answered and every stream ends, there comes a time from which no turn   *)
(* is in flight.                                                           *)
(***************************************************************************)
Ceiling == MaxLoopDepthOf(guildSettings)

InFlight(t) == turns[t].pc \notin Terminal

TreeIsBounded ==
  \A t \in Turns :
    /\ turns[t].depth <= Ceiling + 1
    /\ turns[t].pc # "stopped" => turns[t].depth <= Ceiling
    /\ turns[t].pc = "stopped" => Children(t) = {}
    /\ turns[t].parent # 0 =>
         /\ turns[t].parent < t
         /\ turns[t].depth = turns[turns[t].parent].depth + 1
    /\ Cardinality(Children(t)) <= Len(allAgentsInChannel) - 1
    /\ \A c \in Children(t), d \in Children(t) :
         /\ turns[c].agent # turns[t].agent
         /\ turns[c].agent = turns[d].agent => c = d

C37_RecursionTerminates ==
  /\ []TreeIsBounded
  /\ <>[](\A t \in Turns : ~InFlight(t))

\* a tree of three levels that has come to rest: the root, a turn at the
\* ceiling and, below it, an invocation that returned at once
C37_Witness ==
  /\ Turns # {}
  /\ \A t \in Turns : ~InFlight(t)
  /\ \E t \in Turns, u \in Turns :
       /\ turns[t].depth = Ceiling
       /\ turns[t].pc = "done"
       /\ turns[u].parent = t
       /\ turns[u].pc = "stopped"
  /\ \E t \in Turns : Cardinality(Children(t)) = Len(allAgentsInChannel) - 1
                        /\ Len(allAgentsInChannel) = 3

(***************************************************************************)
(* C38. A message that an agent or the client itself has put in the        *)
(* channel starts no turn and is not buffered by the debouncer: the step   *)
(* in which messageCreate receives it changes no timer, no buffer, no      *)
(* turn, no row and no request, and no buffer and no depth 0 turn ever     *)
(* holds it. An agent's output reaches another agent through the mention   *)
(* scan only: every turn is either a depth 0 turn started for messages of  *)
(* humans or the turn the scan of its parent invoked, one level below it,  *)
(* with the parent's combinedReplyText, for an agent that text mentions,   *)
(* and within the depth ceiling.                                           *)
(***************************************************************************)
\* inbound message i was not written by a human
OwnTraffic(i) == inbound[i].author \notin Usernames

HandlerIgnoresOwnTraffic ==
  (Len(inbound') = Len(inbound) + 1 /\ inbound'[Len(inbound')].author \notin Usernames)
    => UNCHANGED <<yapTimers, timeouts, starts, turns, db, sent, calls>>

OwnTrafficNeverHeld ==
  \A i \in 1..Len(inbound) :
    OwnTraffic(i) =>
      /\ \A a \in DOMAIN yapTimers :
           \A k \in 1..Len(yapTimers[a].messageBuffer) :
             yapTimers[a].messageBuffer[k] # i
      /\ \A timer \in timeouts : timer.msg # i
      /\ \A s \in 1..Len(starts) :
           \A k \in 1..Len(starts[s].msgs) : starts[s].msgs[k] # i

TurnsFromHumansOrScan ==
  \A t \in Turns :
    IF turns[t].parent = 0
    THEN /\ turns[t].depth = 0
         /\ \E s \in 1..Len(starts) :
              /\ starts[s].turn = t
              /\ starts[s].msgs # <<>>
              /\ \A k \in 1..Len(starts[s].msgs) : ~OwnTraffic(starts[s].msgs[k])
    ELSE LET p == turns[t].parent
         IN /\ turns[p].pc \in {"scan", "done"}
            /\ turns[t].depth = turns[p].depth + 1
            /\ turns[t].depth <= Ceiling + 1
            /\ turns[t].content = turns[p].combinedReplyText
            /\ turns[t].agent # turns[p].agent
            /\ MentionTest(allAgentsInChannel[turns[t].agent].name,
                           turns[p].combinedReplyText)

C38_OwnTrafficStartsNothing ==
  /\ [](OwnTrafficNeverHeld /\ TurnsFromHumansOrScan)
  /\ [][HandlerIgnoresOwnTraffic]_vars

\* Al's reply "bo" has come back to messageCreate: it names Bo, for whom
\* /yap is on, and nothing holds it; Bo's turn for that reply is the one the
\* scan of Al's turn invoked
C38_Witness ==
  \E i \in 1..Len(inbound) :
    /\ inbound[i].author = Agents[1].name
    /\ inbound[i].content = <<"b", "o">>
    /\ MentionTest(Agents[2].name, inbound[i].content)
    /\ 2 \in yapSettings
    /\ turns[sent[inbound[i].sent].turn].pc = "done"
    /\ Cardinality({t \in Turns : turns[t].agent = 2 /\ turns[t].depth = 1
                                   /\ turns[t].content = <<"b", "o">>}) = 1
    /\ \A s \in 1..Len(starts) : starts[s].msgs = <<1>>
    /\ timeouts = {}

====
